---- MODULE Spec2Model ----
(***************************************************************************)
(* TriglavTactician: the board, the move generator and MakeMove.           *)
(*                                                                         *)
(* A U64 bitboard is modelled as the set of its set bits (a subset of      *)
(* 0..63); |, & and ~ are union, intersection and complement, a shift      *)
(* moves every element and drops what leaves 0..63.  A move is the packed  *)
(* integer of encode_move.                                                 *)
(***************************************************************************)
EXTENDS Integers, Sequences, FiniteSets, TLC

\* ------------------------------------------------------------------ bounds
\* Number of operations explored after the scripted prefix of a game.
MaxFree == 1
\* Number of iterations explored of a search whose time is limited.
MaxDepth == 2
\* Number of occupied squares of the blockers given to the sliding pieces.
MaxBlockers == 2

\* ------------------------------------------------- chess_utils.h constants
Squares == 0..63
no_sq == 64

WP == 0
WN == 1
WB == 2
WR == 3
WQ == 4
WK == 5
BP == 6
BN == 7
BB == 8
BR == 9
BQ == 10
BK == 11

white == 0
black == 1
both == 2

a8 == 0
c8 == 2
d8 == 3
e8 == 4
f8 == 5
g8 == 6
h8 == 7
a7 == 8
h7 == 15
a2 == 48
h2 == 55
a1 == 56
c1 == 58
d1 == 59
e1 == 60
f1 == 61
g1 == 62
h1 == 63

WK_c == 1
WQ_c == 2
BK_c == 4
BQ_c == 8

UP == 0
DOWN == 1
LEFT == 2
RIGHT == 3
UPLEFT == 4
UPRIGHT == 5
DOWNLEFT == 6
DOWNRIGHT == 7

NOT_FILE_A == {s \in Squares : s % 8 # 0}
NOT_FILE_H == {s \in Squares : s % 8 # 7}
NOT_FILE_HG == {s \in Squares : s % 8 < 6}
NOT_FILE_AB == {s \in Squares : s % 8 > 1}

WHITE_PROMOTIONS == <<WQ, WR, WB, WN>>
BLACK_PROMOTIONS == <<BQ, BR, BB, BN>>

CASTLING_RIGHTS ==
  [s \in Squares |->
     CASE s = a8 -> 7
       [] s = e8 -> 3
       [] s = h8 -> 11
       [] s = a1 -> 13
       [] s = e1 -> 12
       [] s = h1 -> 14
       [] OTHER -> 15]

\* --------------------------------------------------------- bit primitives
set_bit(bitboard, square) == bitboard \cup {square}
get_bit(bitboard, square) == square \in bitboard
pop_bit(bitboard, square) == bitboard \ {square}

ShiftL(bitboard, n) == {s + n : s \in bitboard} \cap Squares
ShiftR(bitboard, n) == {s - n : s \in bitboard} \cap Squares

\* asserted non-empty in the source
bitScanForward(bb) == CHOOSE s \in bb : \A t \in bb : s <= t
bitScanReverse(bb) == CHOOSE s \in bb : \A t \in bb : s >= t
countBits(bitboard) == Cardinality(bitboard)

\* x & y on the four-bit castling mask
BitAnd4(x, y) ==
  LET b(v, i) == (v \div i) % 2
  IN  b(x, 1) * b(y, 1) + 2 * b(x, 2) * b(y, 2)
      + 4 * b(x, 4) * b(y, 4) + 8 * b(x, 8) * b(y, 8)

\* ----------------------------------------------------------- attack tables
generatePawnAttacks(color, square) ==
  LET bitboard == {square}
  IN  IF color = white
      THEN (IF ShiftR(bitboard, 7) \cap NOT_FILE_A # {} THEN ShiftR(bitboard, 7) ELSE {})
           \cup (IF ShiftR(bitboard, 9) \cap NOT_FILE_H # {} THEN ShiftR(bitboard, 9) ELSE {})
      ELSE (IF ShiftL(bitboard, 7) \cap NOT_FILE_H # {} THEN ShiftL(bitboard, 7) ELSE {})
           \cup (IF ShiftL(bitboard, 9) \cap NOT_FILE_A # {} THEN ShiftL(bitboard, 9) ELSE {})

generateKingAttacks(square) ==
  LET bitboard == {square}
      m(sh, mask) == IF sh \cap mask # {} THEN sh ELSE {}
  IN  m(ShiftR(bitboard, 8), Squares)
      \cup m(ShiftR(bitboard, 9), NOT_FILE_H)
      \cup m(ShiftR(bitboard, 7), NOT_FILE_A)
      \cup m(ShiftR(bitboard, 1), NOT_FILE_H)
      \cup m(ShiftL(bitboard, 8), Squares)
      \cup m(ShiftL(bitboard, 9), NOT_FILE_A)
      \cup m(ShiftL(bitboard, 7), NOT_FILE_H)
      \cup m(ShiftL(bitboard, 1), NOT_FILE_A)

generateKnightAttacks(square) ==
  LET bitboard == {square}
      m(sh, mask) == IF sh \cap mask # {} THEN sh ELSE {}
  IN  m(ShiftR(bitboard, 17), NOT_FILE_H)
      \cup m(ShiftR(bitboard, 15), NOT_FILE_A)
      \cup m(ShiftR(bitboard, 10), NOT_FILE_HG)
      \cup m(ShiftR(bitboard, 6), NOT_FILE_AB)
      \cup m(ShiftL(bitboard, 17), NOT_FILE_A)
      \cup m(ShiftL(bitboard, 15), NOT_FILE_H)
      \cup m(ShiftL(bitboard, 10), NOT_FILE_AB)
      \cup m(ShiftL(bitboard, 6), NOT_FILE_HG)

\* initLeapersAttacks
pawn_attacks == [c \in {white, black} |-> [s \in Squares |-> generatePawnAttacks(c, s)]]
knight_attacks == [s \in Squares |-> generateKnightAttacks(s)]
king_attacks == [s \in Squares |-> generateKingAttacks(s)]

\* mask shifted n times by one file, masked after every step
RECURSIVE StepMaskR(_, _, _)
StepMaskR(mask, n, notfile) ==
  IF n = 0 THEN mask ELSE StepMaskR(ShiftR(mask, 1) \cap notfile, n - 1, notfile)

RECURSIVE StepMaskL(_, _, _)
StepMaskL(mask, n, notfile) ==
  IF n = 0 THEN mask ELSE StepMaskL(ShiftL(mask, 1) \cap notfile, n - 1, notfile)

\* initGenerateRays, one square
GenerateRay(dir, square) ==
  LET row == square \div 8
      col == square % 8
      downLeftMask == {14, 21, 28, 35, 42, 49, 56}
      downRightMask == {9, 18, 27, 36, 45, 54, 63}
      upLeftMask == {0, 9, 18, 27, 36, 45, 54}
      upRightMask == {7, 14, 21, 28, 35, 42, 49}
  IN  CASE dir = DOWN -> ShiftL({8, 16, 24, 32, 40, 48, 56}, square)
        [] dir = UP -> ShiftR({7, 15, 23, 31, 39, 47, 55}, 63 - square)
        [] dir = RIGHT -> {s \in Squares : s > square /\ s <= (square \div 8) * 8 + 7}
        [] dir = LEFT -> {s \in Squares : s < square /\ s >= (square \div 8) * 8}
        [] dir = DOWNLEFT -> ShiftL(StepMaskR(downLeftMask, 7 - col, NOT_FILE_H), row * 8)
        [] dir = DOWNRIGHT -> ShiftL(StepMaskL(downRightMask, col, NOT_FILE_A), row * 8)
        [] dir = UPLEFT -> ShiftR(StepMaskR(upLeftMask, 7 - col, NOT_FILE_H), (7 - row) * 8)
        [] dir = UPRIGHT -> ShiftR(StepMaskL(upRightMask, col, NOT_FILE_A), (7 - row) * 8)

rays == [d \in 0..7 |-> [s \in Squares |-> GenerateRay(d, s)]]

\* Faulty variant of RayCut: the blocker is always found with bitScanForward.
RayCut_Forward(attacks, dir, hit, forward) ==
  IF hit # {} THEN attacks \ rays[dir][bitScanForward(hit)] ELSE attacks

\* on a blocker, attacks &= ~rays[dir][blockerIndex]
RayCut(attacks, dir, hit, forward) ==
  IF hit # {}
  THEN attacks \ rays[dir][IF forward THEN bitScanForward(hit) ELSE bitScanReverse(hit)]
  ELSE attacks

\* attacks |= rays[dir][square], then the cut at the first blocker
RayStep(attacks, dir, square, blockers, forward) ==
  RayCut(attacks \cup rays[dir][square], dir, rays[dir][square] \cap blockers, forward)

getBishopMoves(square, blockers) ==
  RayStep(RayStep(RayStep(RayStep({}, UPLEFT, square, blockers, FALSE),
                          UPRIGHT, square, blockers, FALSE),
                  DOWNRIGHT, square, blockers, TRUE),
          DOWNLEFT, square, blockers, TRUE)

getRooksMoves(square, blockers) ==
  RayStep(RayStep(RayStep(RayStep({}, UP, square, blockers, FALSE),
                          DOWN, square, blockers, TRUE),
                  RIGHT, square, blockers, TRUE),
          LEFT, square, blockers, FALSE)

getQueensMoves(square, blockers) ==
  getRooksMoves(square, blockers) \cup getBishopMoves(square, blockers)

\* ------------------------------------------------------------------ board
\* ChessBoard: the fields of the class, as a record
Pieces == WP..BK
\* Faulty variant of copyBoard: the en-passant square is not saved.
copyBoard_NoEnpassant(board) ==
  [board EXCEPT !.bitboards_copy = board.bitboards,
                !.occupancy_copy = board.occupancy,
                !.color_copy = board.color,
                !.castling_copy = board.castling]

copyBoard(board) ==
  [board EXCEPT !.bitboards_copy = board.bitboards,
                !.occupancy_copy = board.occupancy,
                !.color_copy = board.color,
                !.enpassant_copy = board.enpassant,
                !.castling_copy = board.castling]
\* Faulty variant of revertBoard: the castling rights are not restored.
revertBoard_KeepsCastling(board) ==
  [board EXCEPT !.bitboards = board.bitboards_copy,
                !.occupancy = board.occupancy_copy,
                !.color = board.color_copy,
                !.enpassant = board.enpassant_copy]

revertBoard(board) ==
  [board EXCEPT !.bitboards = board.bitboards_copy,
                !.occupancy = board.occupancy_copy,
                !.color = board.color_copy,
                !.enpassant = board.enpassant_copy,
                !.castling = board.castling_copy]

\* the loop over colours stops before `both`: occupancy[both] and
\* occupancy_copy[both] keep what they held
resetBoard(board) ==
  [bitboards |-> [p \in Pieces |-> {}],
   bitboards_copy |-> [p \in Pieces |-> {}],
   occupancy |-> [c \in 0..2 |-> IF c < both THEN {} ELSE board.occupancy[c]],
   occupancy_copy |-> [c \in 0..2 |-> IF c < both THEN {} ELSE board.occupancy_copy[c]],
   color |-> 0,
   color_copy |-> both,
   enpassant |-> no_sq,
   enpassant_copy |-> no_sq,
   castling |-> 0,
   castling_copy |-> 0,
   num_moves |-> 0]

isSquareAttacked(board, square, color) ==
  \/ (IF color = white
      THEN pawn_attacks[black][square] \cap board.bitboards[WP]
      ELSE pawn_attacks[white][square] \cap board.bitboards[BP]) # {}
  \/ knight_attacks[square] \cap (IF color = white THEN board.bitboards[WN] ELSE board.bitboards[BN]) # {}
  \/ getBishopMoves(square, board.occupancy[both])
       \cap (IF color = white THEN board.bitboards[WB] ELSE board.bitboards[BB]) # {}
  \/ getRooksMoves(square, board.occupancy[both])
       \cap (IF color = white THEN board.bitboards[WR] ELSE board.bitboards[BR]) # {}
  \/ getQueensMoves(square, board.occupancy[both])
       \cap (IF color = white THEN board.bitboards[WQ] ELSE board.bitboards[BQ]) # {}
  \/ king_attacks[square] \cap (IF color = white THEN board.bitboards[WK] ELSE board.bitboards[BK]) # {}

isThereCheck(board, color) ==
  isSquareAttacked(board,
                   IF color = white THEN bitScanForward(board.bitboards[WK])
                                    ELSE bitScanForward(board.bitboards[BK]),
                   1 - color)

\* x | y on the four-bit castling mask
BitOr4(x, y) == x + y - BitAnd4(x, y)

\* ---------------------------------------------------------------- parseFEN
\* A C string is modelled as the sequence of its characters.
LowerLetters ==
  <<"a", "b", "c", "d", "e", "f", "g", "h", "i", "j", "k", "l", "m",
    "n", "o", "p", "q", "r", "s", "t", "u", "v", "w", "x", "y", "z">>
UpperLetters ==
  <<"A", "B", "C", "D", "E", "F", "G", "H", "I", "J", "K", "L", "M",
    "N", "O", "P", "Q", "R", "S", "T", "U", "V", "W", "X", "Y", "Z">>
DigitChars == <<"0", "1", "2", "3", "4", "5", "6", "7", "8", "9">>

IsLetter(c) == (\E k \in 1..26 : LowerLetters[k] = c) \/ (\E k \in 1..26 : UpperLetters[k] = c)
IsDigit(c) == \E k \in 1..10 : DigitChars[k] = c
\* c - '0'
DigitValue(c) == (CHOOSE k \in 1..10 : DigitChars[k] = c) - 1
\* c - 'a'
LetterIndex(c) == (CHOOSE k \in 1..26 : LowerLetters[k] = c) - 1

EMPTY == 12

charToPieceEnum(pieceChar) ==
  CASE pieceChar = "P" -> WP
    [] pieceChar = "N" -> WN
    [] pieceChar = "B" -> WB
    [] pieceChar = "R" -> WR
    [] pieceChar = "Q" -> WQ
    [] pieceChar = "K" -> WK
    [] pieceChar = "p" -> BP
    [] pieceChar = "n" -> BN
    [] pieceChar = "b" -> BB
    [] pieceChar = "r" -> BR
    [] pieceChar = "q" -> BQ
    [] pieceChar = "k" -> BK
    [] OTHER -> EMPTY

\* the two nested loops over rank and file of parseFEN; i is the position of
\* the pointer fen in the string
RECURSIVE ParsePlacement(_, _, _, _, _)
ParsePlacement(fen, i, rank, file, bitboards) ==
  IF rank >= 8 THEN [bitboards |-> bitboards, i |-> i]
  ELSE IF file >= 8 THEN ParsePlacement(fen, i, rank + 1, 0, bitboards)
  ELSE
    LET square == rank * 8 + file
        letter == IsLetter(fen[i])
        bb1 == IF letter
               THEN [bitboards EXCEPT ![charToPieceEnum(fen[i])] = set_bit(@, square)]
               ELSE bitboards
        i1 == IF letter THEN i + 1 ELSE i
        digit == IsDigit(fen[i1])
        occupied == \E bb_piece \in Pieces : get_bit(bb1[bb_piece], square)
        file1 == IF digit
                 THEN (IF occupied THEN file ELSE file - 1) + DigitValue(fen[i1])
                 ELSE file
        i2 == IF digit THEN i1 + 1 ELSE i1
        i3 == IF fen[i2] = "/" THEN i2 + 1 ELSE i2
    IN  ParsePlacement(fen, i3, rank, file1 + 1, bb1)

\* the loop over the castling field
RECURSIVE ParseCastling(_, _, _)
ParseCastling(fen, i, castling) ==
  IF fen[i] = " " THEN [castling |-> castling, i |-> i]
  ELSE ParseCastling(fen, i + 1,
         CASE fen[i] = "K" -> BitOr4(castling, WK_c)
           [] fen[i] = "Q" -> BitOr4(castling, WQ_c)
           [] fen[i] = "k" -> BitOr4(castling, BK_c)
           [] fen[i] = "q" -> BitOr4(castling, BQ_c)
           [] OTHER -> castling)

parseFEN(board, fen) ==
  LET b0 == resetBoard(board)
      pl == ParsePlacement(fen, 1, 0, 0, b0.bitboards)
      iside == pl.i + 1
      cs == ParseCastling(fen, iside + 2, b0.castling)
      iep == cs.i + 1
      ep == IF fen[iep] # "-"
            THEN (8 - DigitValue(fen[iep + 1])) * 8 + LetterIndex(fen[iep])
            ELSE no_sq
      occw == b0.occupancy[white] \cup UNION {pl.bitboards[p] : p \in WP..WK}
      occb == b0.occupancy[black] \cup UNION {pl.bitboards[p] : p \in BP..BK}
  IN  [b0 EXCEPT !.bitboards = pl.bitboards,
                 !.color = IF fen[iside] = "w" THEN white ELSE black,
                 !.castling = cs.castling,
                 !.enpassant = ep,
                 !.occupancy = [c \in 0..2 |->
                                  CASE c = white -> occw
                                    [] c = black -> occb
                                    [] OTHER -> occw \cup occb]]

\* "rnbqkbnr/pppppppp/8/8/8/8/PPPPPPPP/RNBQKBNR w KQkq - 0 1"
StartFEN ==
  <<
     "r", "n", "b", "q", "k", "b", "n", "r", "/", "p", "p", "p", "p", "p", "p", "p",
     "p", "/", "8", "/", "8", "/", "8", "/", "8", "/", "P", "P", "P", "P", "P", "P",
     "P", "P", "/", "R", "N", "B", "Q", "K", "B", "N", "R", " ", "w", " ", "K", "Q",
     "k", "q", " ", "-", " ", "0", " ", "1"
  >>

\* ------------------------------------------------------------ move encoding
encode_move(from, to, piece, promoted, capture, double_p, enpassant, castling) ==
  from + to * 64 + piece * 4096 + promoted * 65536 + capture * 1048576
  + double_p * 2097152 + enpassant * 4194304 + castling * 8388608

get_move_source(move) == move % 64
get_move_target(move) == (move \div 64) % 64
get_move_piece(move) == (move \div 4096) % 16
get_move_promoted(move) == (move \div 65536) % 16
get_move_capture(move) == ((move \div 1048576) % 2) * 1048576
get_move_double(move) == ((move \div 2097152) % 2) * 2097152
get_move_enpassant(move) == ((move \div 4194304) % 2) * 4194304
get_move_castling(move) == ((move \div 8388608) % 2) * 8388608

\* --------------------------------------------------------- move generation
\* A move list is the sequence moves[0 .. moves_count-1].
MOVES_CAPACITY == 256

add_move(list, move) ==
  IF Len(list) < MOVES_CAPACITY THEN Append(list, move) ELSE list

\* add_move for every move of ms in order: what does not fit is dropped
AddMoves(list, ms) ==
  IF Len(list) + Len(ms) <= MOVES_CAPACITY
  THEN list \o ms
  ELSE list \o SubSeq(ms, 1, MOVES_CAPACITY - Len(list))

\* while (bb) { s = bitScanForward(bb); ...; pop_bit(bb, s); }: the visiting order
SquaresInOrder == [i \in 1..64 |-> i - 1]
BitsInOrder(bb) == SelectSeq(SquaresInOrder, LAMBDA s : s \in bb)

\* Faulty variant of PawnCaptureMoves: a capturing pawn promotes to a queen only.
PawnCaptureMoves_QueenOnly(from_square, to_square, piece, promotions, is_promotion_allowed) ==
  IF is_promotion_allowed
  THEN <<encode_move(from_square, to_square, piece, promotions[1], 1, 0, 0, 0)>>
  ELSE <<encode_move(from_square, to_square, piece, 0, 1, 0, 0, 0)>>

\* the moves of the capture loop of one pawn for the attacked square to_square
PawnCaptureMoves(from_square, to_square, piece, promotions, is_promotion_allowed) ==
  IF is_promotion_allowed
  THEN [i \in 1..4 |-> encode_move(from_square, to_square, piece, promotions[i], 1, 0, 0, 0)]
  ELSE <<encode_move(from_square, to_square, piece, 0, 1, 0, 0, 0)>>

\* the moves the body of the pawn loop adds for the pawn on from_square
PawnMovesFrom(board, color, occupancy, from_square) ==
  LET piece == IF color = white THEN WP ELSE BP
      direction == IF color = white THEN -8 ELSE 8
      promotions == IF color = white THEN WHITE_PROMOTIONS ELSE BLACK_PROMOTIONS
      to_square == from_square + direction
      is_move_push_allowed == IF color = white THEN ~(to_square < a8) ELSE ~(to_square > h1)
      is_promotion_allowed ==
        IF color = white THEN from_square >= a7 /\ from_square <= h7
                         ELSE from_square >= a2 /\ from_square <= h2
      is_double_allowed ==
        IF color = white THEN from_square >= a2 /\ from_square <= h2
                         ELSE from_square >= a7 /\ from_square <= h7
      pushes ==
        IF is_move_push_allowed /\ ~get_bit(occupancy[both], to_square)
        THEN IF is_promotion_allowed
             THEN [i \in 1..4 |-> encode_move(from_square, to_square, piece, promotions[i], 0, 0, 0, 0)]
             ELSE <<encode_move(from_square, to_square, piece, 0, 0, 0, 0, 0)>>
                  \o (IF is_double_allowed /\ ~get_bit(occupancy[both], to_square + direction)
                      THEN <<encode_move(from_square, to_square + direction, piece, 0, 0, 1, 0, 0)>>
                      ELSE <<>>)
        ELSE <<>>
      attacks == BitsInOrder(pawn_attacks[color][from_square] \cap occupancy[1 - color])
      captures ==
        CASE Len(attacks) = 0 -> <<>>
          [] Len(attacks) = 1 ->
               PawnCaptureMoves(from_square, attacks[1], piece, promotions, is_promotion_allowed)
          [] OTHER ->
               PawnCaptureMoves(from_square, attacks[1], piece, promotions, is_promotion_allowed)
               \o PawnCaptureMoves(from_square, attacks[2], piece, promotions, is_promotion_allowed)
      enpassant_attacks ==
        IF board.enpassant # no_sq
        THEN pawn_attacks[color][from_square] \cap {board.enpassant}
        ELSE {}
      enpassants ==
        IF enpassant_attacks # {}
        THEN <<encode_move(from_square, bitScanForward(enpassant_attacks), piece, 0, 1, 0, 1, 0)>>
        ELSE <<>>
  IN  pushes \o captures \o enpassants

\* the concatenation of the sequences of a sequence
RECURSIVE Flatten(_)
Flatten(ss) == IF ss = <<>> THEN <<>> ELSE Head(ss) \o Flatten(Tail(ss))

generateMovesPawns(list, board, color, occupancy) ==
  LET froms == BitsInOrder(IF color = white THEN board.bitboards[WP] ELSE board.bitboards[BP])
  IN  AddMoves(list, Flatten([i \in 1..Len(froms) |->
                                PawnMovesFrom(board, color, occupancy, froms[i])]))

\* the loop over the target squares of a king, knight, bishop, rook or queen
TargetMoves(from_square, piece, enemy, attacks) ==
  LET targets == BitsInOrder(attacks)
  IN  [i \in 1..Len(targets) |->
         IF ~get_bit(enemy, targets[i])
         THEN encode_move(from_square, targets[i], piece, 0, 0, 0, 0, 0)
         ELSE encode_move(from_square, targets[i], piece, 0, 1, 0, 0, 0)]
\* Faulty variant of CastleKingSide: the crossed square is not tested.
CastleKingSide_NoCrossedTest(list, board, color) ==
  LET piece == IF color = white THEN WK ELSE BK
      square_kings_side == IF color = white THEN f1 ELSE f8
  IN  IF /\ BitAnd4(board.castling, IF color = white THEN WK_c ELSE BK_c) # 0
         /\ ~get_bit(board.occupancy[both], square_kings_side)
         /\ ~get_bit(board.occupancy[both], square_kings_side + 1)
         /\ ~isSquareAttacked(board, square_kings_side - 1, 1 - color)
      THEN add_move(list, encode_move(square_kings_side - 1, square_kings_side + 1, piece, 0, 0, 0, 0, 1))
      ELSE list

\* the castling part of generateMovesKings, king's side
CastleKingSide(list, board, color) ==
  LET piece == IF color = white THEN WK ELSE BK
      square_kings_side == IF color = white THEN f1 ELSE f8
  IN  IF /\ BitAnd4(board.castling, IF color = white THEN WK_c ELSE BK_c) # 0
         /\ ~get_bit(board.occupancy[both], square_kings_side)
         /\ ~get_bit(board.occupancy[both], square_kings_side + 1)
         /\ ~isSquareAttacked(board, square_kings_side - 1, 1 - color)
         /\ ~isSquareAttacked(board, square_kings_side, 1 - color)
      THEN add_move(list, encode_move(square_kings_side - 1, square_kings_side + 1, piece, 0, 0, 0, 0, 1))
      ELSE list

\* the castling part of generateMovesKings, queen's side
CastleQueenSide(list, board, color) ==
  LET piece == IF color = white THEN WK ELSE BK
      square_queens_side == IF color = white THEN d1 ELSE d8
  IN  IF /\ BitAnd4(board.castling, IF color = white THEN WQ_c ELSE BQ_c) # 0
         /\ ~get_bit(board.occupancy[both], square_queens_side)
         /\ ~get_bit(board.occupancy[both], square_queens_side - 1)
         /\ ~get_bit(board.occupancy[both], square_queens_side - 2)
         /\ ~isSquareAttacked(board, square_queens_side + 1, 1 - color)
         /\ ~isSquareAttacked(board, square_queens_side, 1 - color)
      THEN add_move(list, encode_move(square_queens_side + 1, square_queens_side - 1, piece, 0, 0, 0, 0, 1))
      ELSE list

generateMovesKings(list, board, color, occupancy) ==
  LET piece == IF color = white THEN WK ELSE BK
      froms == BitsInOrder(board.bitboards[piece])
      steps == Flatten([i \in 1..Len(froms) |->
                          TargetMoves(froms[i], piece, occupancy[1 - color],
                                      king_attacks[froms[i]] \ occupancy[color])])
  IN  CastleQueenSide(CastleKingSide(AddMoves(list, steps), board, color), board, color)

\* the attack set of the switch of generateMovesPiece
PieceAttacks(piece, from_square, occupancy) ==
  CASE piece \in {WN, BN} -> knight_attacks[from_square]
    [] piece \in {WB, BB} -> getBishopMoves(from_square, occupancy[both])
    [] piece \in {WR, BR} -> getRooksMoves(from_square, occupancy[both])
    [] piece \in {WQ, BQ} -> getQueensMoves(from_square, occupancy[both])

generateMovesPiece(list, board, occupancy, piece) ==
  LET froms == BitsInOrder(board.bitboards[piece])
      own == IF piece < 6 THEN occupancy[white] ELSE occupancy[black]
      enemy == IF piece < 6 THEN occupancy[black] ELSE occupancy[white]
  IN  AddMoves(list, Flatten([i \in 1..Len(froms) |->
                                TargetMoves(froms[i], piece, enemy,
                                            PieceAttacks(piece, froms[i], occupancy) \ own)]))

\* moves_count = 0, then the generators in the order of the source
generate_moves(board) ==
  generateMovesPiece(
    generateMovesPiece(
      generateMovesPiece(
        generateMovesPiece(
          generateMovesKings(
            generateMovesPawns(<<>>, board, IF board.color = white THEN white ELSE black,
                               board.occupancy),
            board, IF board.color = white THEN white ELSE black, board.occupancy),
          board, board.occupancy, IF board.color = white THEN WN ELSE BN),
        board, board.occupancy, IF board.color = white THEN WB ELSE BB),
      board, board.occupancy, IF board.color = white THEN WR ELSE BR),
    board, board.occupancy, IF board.color = white THEN WQ ELSE BQ)

\* Faulty variant of MovePieces: a castling king is not taken off its source
\* square.
MovePieces_CastlingKeepsKing(bitboards, move) ==
  LET from_square == get_move_source(move)
      to_square == get_move_target(move)
      piece == get_move_piece(move)
      promoted == get_move_promoted(move)
      range == IF piece < 6 THEN 6 ELSE 0
      bb1 == IF get_move_castling(move) # 0
             THEN [bitboards EXCEPT ![piece] = set_bit(@, to_square)]
             ELSE [bitboards EXCEPT ![piece] = set_bit(pop_bit(@, from_square), to_square)]
      victims == {p \in range..(range + 5) : get_bit(bb1[p], to_square)}
      bb2 == IF get_move_capture(move) # 0 /\ victims # {}
             THEN [bb1 EXCEPT ![bitScanForward(victims)] = pop_bit(@, to_square)]
             ELSE bb1
      bb3 == IF promoted # 0
             THEN LET t == [bb2 EXCEPT ![piece] = pop_bit(@, to_square)]
                  IN  [t EXCEPT ![promoted] = set_bit(@, to_square)]
             ELSE bb2
      bb4 == IF get_move_enpassant(move) # 0
             THEN IF piece < 6
                  THEN [bb3 EXCEPT ![BP] = pop_bit(@, to_square + 8)]
                  ELSE [bb3 EXCEPT ![WP] = pop_bit(@, to_square - 8)]
             ELSE bb3
  IN  IF get_move_castling(move) # 0
      THEN CASE to_square = g1 -> [bb4 EXCEPT ![WR] = set_bit(pop_bit(@, h1), f1)]
             [] to_square = c1 -> [bb4 EXCEPT ![WR] = set_bit(pop_bit(@, a1), d1)]
             [] to_square = g8 -> [bb4 EXCEPT ![BR] = set_bit(pop_bit(@, h8), f8)]
             [] to_square = c8 -> [bb4 EXCEPT ![BR] = set_bit(pop_bit(@, a8), d8)]
             [] OTHER -> bb4
      ELSE bb4

\* Faulty variant of MovePieces: a captured piece is not removed.
MovePieces_NoCapture(bitboards, move) ==
  LET from_square == get_move_source(move)
      to_square == get_move_target(move)
      piece == get_move_piece(move)
      promoted == get_move_promoted(move)
      bb1 == [bitboards EXCEPT ![piece] = set_bit(pop_bit(@, from_square), to_square)]
      bb3 == IF promoted # 0
             THEN LET t == [bb1 EXCEPT ![piece] = pop_bit(@, to_square)]
                  IN  [t EXCEPT ![promoted] = set_bit(@, to_square)]
             ELSE bb1
      bb4 == IF get_move_enpassant(move) # 0
             THEN IF piece < 6
                  THEN [bb3 EXCEPT ![BP] = pop_bit(@, to_square + 8)]
                  ELSE [bb3 EXCEPT ![WP] = pop_bit(@, to_square - 8)]
             ELSE bb3
  IN  IF get_move_castling(move) # 0
      THEN CASE to_square = g1 -> [bb4 EXCEPT ![WR] = set_bit(pop_bit(@, h1), f1)]
             [] to_square = c1 -> [bb4 EXCEPT ![WR] = set_bit(pop_bit(@, a1), d1)]
             [] to_square = g8 -> [bb4 EXCEPT ![BR] = set_bit(pop_bit(@, h8), f8)]
             [] to_square = c8 -> [bb4 EXCEPT ![BR] = set_bit(pop_bit(@, a8), d8)]
             [] OTHER -> bb4
      ELSE bb4

\* ----------------------------------------------------------------- MakeMove
\* The piece bitboards after lines 28-85 (move, capture, promotion, en passant,
\* rook of a castling).  The occupancy updates of lines 34-35 and 47 are
\* overwritten by the rebuild of lines 93-105 and are folded into it.
MovePieces(bitboards, move) ==
  LET from_square == get_move_source(move)
      to_square == get_move_target(move)
      piece == get_move_piece(move)
      promoted == get_move_promoted(move)
      color == IF piece < 6 THEN white ELSE black
      range == IF color = 0 THEN 6 ELSE 0
      bb1 == [bitboards EXCEPT ![piece] = set_bit(pop_bit(@, from_square), to_square)]
      victims == {p \in range..(range + 5) : get_bit(bb1[p], to_square)}
      bb2 == IF get_move_capture(move) # 0 /\ victims # {}
             THEN [bb1 EXCEPT ![bitScanForward(victims)] = pop_bit(@, to_square)]
             ELSE bb1
      bb3 == IF promoted # 0
             THEN LET t == [bb2 EXCEPT ![piece] = pop_bit(@, to_square)]
                  IN  [t EXCEPT ![promoted] = set_bit(@, to_square)]
             ELSE bb2
      bb4 == IF get_move_enpassant(move) # 0
             THEN IF color = white
                  THEN [bb3 EXCEPT ![BP] = pop_bit(@, to_square + 8)]
                  ELSE [bb3 EXCEPT ![WP] = pop_bit(@, to_square - 8)]
             ELSE bb3
  IN  IF get_move_castling(move) # 0
      THEN CASE to_square = g1 -> [bb4 EXCEPT ![WR] = set_bit(pop_bit(@, h1), f1)]
             [] to_square = c1 -> [bb4 EXCEPT ![WR] = set_bit(pop_bit(@, a1), d1)]
             [] to_square = g8 -> [bb4 EXCEPT ![BR] = set_bit(pop_bit(@, h8), f8)]
             [] to_square = c8 -> [bb4 EXCEPT ![BR] = set_bit(pop_bit(@, a8), d8)]
             [] OTHER -> bb4
      ELSE bb4
\* Faulty variant of RebuildOccupancy: occupancy[both] is not rebuilt from the
\* two colours but from white alone.
RebuildOccupancy_BothFromWhite(bitboards) ==
  LET w == UNION {bitboards[p] : p \in WP..WK}
      b == UNION {bitboards[p] : p \in BP..BK}
  IN  [c \in 0..2 |-> CASE c = white -> w [] c = black -> b [] OTHER -> w]

\* lines 93-105
RebuildOccupancy(bitboards) ==
  LET w == UNION {bitboards[p] : p \in WP..WK}
      b == UNION {bitboards[p] : p \in BP..BK}
  IN  [c \in 0..2 |-> CASE c = white -> w [] c = black -> b [] OTHER -> w \cup b]
\* Faulty variant of UpdateCastling: only the source square is looked up.
UpdateCastling_SourceOnly(castling, move) ==
  BitAnd4(castling, CASTLING_RIGHTS[get_move_source(move)])

\* Faulty variant of UpdateCastling: the masks are or-ed into the rights.
UpdateCastling_Or(castling, move) ==
  BitOr4(BitOr4(castling, CASTLING_RIGHTS[get_move_source(move)]),
         CASTLING_RIGHTS[get_move_target(move)])

\* lines 89-91
UpdateCastling(castling, move) ==
  BitAnd4(BitAnd4(castling, CASTLING_RIGHTS[get_move_source(move)]),
          CASTLING_RIGHTS[get_move_target(move)])
\* Faulty variant of NewEnpassant: the pawn's own square after a double push.
NewEnpassant_Target(move) ==
  IF get_move_double(move) # 0 THEN get_move_target(move) ELSE no_sq

\* lines 114-119
NewEnpassant(move) ==
  LET from_square == get_move_source(move)
      color == IF get_move_piece(move) < 6 THEN white ELSE black
  IN  IF get_move_double(move) # 0
      THEN (IF color = white THEN from_square - 8 ELSE from_square + 8)
      ELSE no_sq
\* Faulty variant of LeavesKingAttacked: no move is rejected.
LeavesKingAttacked_Never(b, color) == FALSE

\* lines 107-112: is the move rejected on the board after lines 28-105
LeavesKingAttacked(b, color) == isThereCheck(b, color)

\* lines 28-105 on the board b0 that copyBoard left, bbs being its bitboards
\* after lines 28-85
ApplyMove(b0, bbs, move) ==
  [b0 EXCEPT !.bitboards = bbs,
             !.enpassant = IF get_move_enpassant(move) # 0 THEN no_sq ELSE @,
             !.castling = UpdateCastling(@, move),
             !.occupancy = RebuildOccupancy(bbs)]

\* lines 107-127 on the board b1 that lines 28-105 left
FinishMove(b1, move) ==
  IF LeavesKingAttacked(b1, IF get_move_piece(move) < 6 THEN white ELSE black)
  THEN [board |-> revertBoard(b1), ret |-> FALSE]
  ELSE [board |-> [b1 EXCEPT !.enpassant = NewEnpassant(move),
                             !.color = 1 - b1.color,
                             !.num_moves = @ + 1],
        ret |-> TRUE]

\* copyBoard and lines 28-85
MovedBoard(b0, move) == ApplyMove(b0, MovePieces(b0.bitboards, move), move)

\* ChessGame::MakeMove: the board after the call and the returned value
MakeMove(board, move) == FinishMove(MovedBoard(copyBoard(board), move), move)

\* ------------------------------------------------------------- parseMove
\* The loop of parseMove over a move list: the first move whose source, target
\* and promotion letter match move_str, or 0.
MoveMatches(move, move_str) ==
  LET from_square == LetterIndex(move_str[1]) + (8 - DigitValue(move_str[2])) * 8
      to_square == LetterIndex(move_str[3]) + (8 - DigitValue(move_str[4])) * 8
      promoted_piece == get_move_promoted(move)
      letter == IF Len(move_str) >= 5 THEN move_str[5] ELSE " "
  IN  /\ from_square = get_move_source(move)
      /\ to_square = get_move_target(move)
      /\ promoted_piece # 0 =>
           \/ promoted_piece \in {WQ, BQ} /\ letter = "q"
           \/ promoted_piece \in {WR, BR} /\ letter = "r"
           \/ promoted_piece \in {WB, BB} /\ letter = "b"
           \/ promoted_piece \in {WN, BN} /\ letter = "n"

MatchMove(list, move_str) ==
  LET hits == {k \in 1..Len(list) : MoveMatches(list[k], move_str)}
  IN  IF hits = {} THEN 0 ELSE list[bitScanForward(hits)]

\* Moves: the array moves[265] (entry k of the sequence is moves[k-1]) and
\* moves_count
MOVES_SIZE == 265

\* generate_moves on a Moves object: the generated moves overwrite the entries
\* from moves[0] on, the entries behind them keep what they held
StoreMoves(m, list) ==
  [moves |-> [k \in 1..MOVES_SIZE |-> IF k <= Len(list) THEN list[k] ELSE m.moves[k]],
   moves_count |-> Len(list)]

\* `for (auto &move : moves.moves)`: the entries the loop of parseMove visits
ScannedMoves(m) == m.moves

\* ChessGame::parseMove on the Moves object m: the object after generate_moves
\* and the returned move
parseMove(m, board, move_str) ==
  [moves |-> StoreMoves(m, generate_moves(board)),
   move |-> MatchMove(ScannedMoves(StoreMoves(m, generate_moves(board))), move_str)]

\* ------------------------------------------------------------- evaluation
\* The tables of evaluation.h: the material values and the piece-square
\* tables, square 0 = a8. Black uses the table mirrored top to bottom.
material_score == <<100, 300, 350, 500, 1000, 10000, -100, -300, -350, -500, -1000, -10000>>

PAWN_SCORE ==
  <<90, 90, 90, 90, 90, 90, 90, 90,
    30, 30, 30, 40, 40, 30, 30, 30,
    20, 20, 20, 30, 30, 30, 20, 20,
    10, 10, 10, 20, 20, 10, 10, 10,
     5,  5, 10, 20, 20,  5,  5,  5,
     0,  0,  0,  5,  5,  0,  0,  0,
     0,  0,  0, -10, -10, 0,  0,  0,
     0,  0,  0,  0,  0,  0,  0,  0>>

KNIGHT_SCORE ==
  <<-5,   0,  0,  0,  0,  0,   0, -5,
    -5,   0,  0, 10, 10,  0,   0, -5,
    -5,   5, 20, 20, 20, 20,   5, -5,
    -5,  10, 20, 30, 30, 20,  10, -5,
    -5,  10, 20, 30, 30, 20,  10, -5,
    -5,   5, 20, 10, 10, 20,   5, -5,
    -5,   0,  0,  0,  0,  0,   0, -5,
    -5, -10,  0,  0,  0,  0, -10, -5>>

BISHOP_SCORE ==
  <<0,  0,   0,  0,  0,   0,  0, 0,
    0,  0,   0,  0,  0,   0,  0, 0,
    0,  0,   0, 10, 10,   0,  0, 0,
    0,  0,  10, 20, 20,  10,  0, 0,
    0,  0,  10, 20, 20,  10,  0, 0,
    0, 10,   0,  0,  0,   0, 10, 0,
    0, 30,   0,  0,  0,   0, 30, 0,
    0,  0, -10,  0,  0, -10,  0, 0>>

ROOK_SCORE ==
  <<50, 50, 50, 50, 50, 50, 50, 50,
    50, 50, 50, 50, 50, 50, 50, 50,
     0,  0, 10, 20, 20, 10,  0,  0,
     0,  0, 10, 20, 20, 10,  0,  0,
     0,  0, 10, 20, 20, 10,  0,  0,
     0,  0, 10, 20, 20, 10,  0,  0,
     0,  0, 10, 20, 20, 10,  0,  0,
     0,  0,  0, 20, 20,  0,  0,  0>>

KING_SCORE ==
  <<0, 0,  0,  0,   0,  0,  0, 0,
    0, 0,  5,  5,   5,  5,  0, 0,
    0, 5,  5, 10,  10,  5,  5, 0,
    0, 5, 10, 20,  20, 10,  5, 0,
    0, 5, 10, 20,  20, 10,  5, 0,
    0, 0,  5, 10,  10,  5,  0, 0,
    0, 5,  5, -5,  -5,  0,  5, 0,
    0, 0,  5,  0, -15,  0, 10, 0>>

MIRROR_SCORE == [s \in Squares |-> (7 - (s \div 8)) * 8 + (s % 8)]

\* most valuable victim, least valuable attacker
MVV_LVA == [attacker \in Pieces |-> [victim \in Pieces |->
              100 * ((victim % 6) + 1) + 5 - (attacker % 6)]]

\* the switch of Evaluate: what the piece on the square adds to the score
PositionalScore(piece, square) ==
  CASE piece = WP -> PAWN_SCORE[square + 1]
    [] piece = WN -> KNIGHT_SCORE[square + 1]
    [] piece = WB -> BISHOP_SCORE[square + 1]
    [] piece = WR -> ROOK_SCORE[square + 1]
    [] piece = WK -> KING_SCORE[square + 1]
    [] piece = BP -> 0 - PAWN_SCORE[MIRROR_SCORE[square] + 1]
    [] piece = BN -> 0 - KNIGHT_SCORE[MIRROR_SCORE[square] + 1]
    [] piece = BB -> 0 - BISHOP_SCORE[MIRROR_SCORE[square] + 1]
    [] piece = BR -> 0 - ROOK_SCORE[MIRROR_SCORE[square] + 1]
    [] piece = BK -> 0 - KING_SCORE[MIRROR_SCORE[square] + 1]
    [] OTHER -> 0

\* the inner loop of Evaluate over the bits of one bitboard
RECURSIVE BitboardScore(_, _)
BitboardScore(piece, bitboard) ==
  IF bitboard = {}
  THEN 0
  ELSE material_score[piece + 1] + PositionalScore(piece, bitScanForward(bitboard))
       + BitboardScore(piece, pop_bit(bitboard, bitScanForward(bitboard)))

\* the outer loop of Evaluate from bb_piece up to BK
RECURSIVE BoardScore(_, _)
BoardScore(board, bb_piece) ==
  IF bb_piece > BK
  THEN 0
  ELSE BitboardScore(bb_piece, board.bitboards[bb_piece]) + BoardScore(board, bb_piece + 1)

Evaluate(board) ==
  IF board.color = white THEN BoardScore(board, WP) ELSE 0 - BoardScore(board, WP)

\* ------------------------------------------------------------ move ordering
\* the victim scoreMove finds on the target square: the first enemy piece
\* whose bitboard holds it, a white pawn when there is none
CaptureTarget(board, to_square) ==
  LET range == IF board.color = 0 THEN 6 ELSE 0
      found == {piece \in range..(range + 5) : get_bit(board.bitboards[piece], to_square)}
  IN  IF found = {} THEN WP ELSE bitScanForward(found)

\* scoreMove with the search globals it reads
scoreMove(board, killer_moves, history_moves, ply, move) ==
  IF get_move_capture(move) # 0
  THEN MVV_LVA[get_move_piece(move)][CaptureTarget(board, get_move_target(move))] + 10000
  ELSE IF killer_moves[0][ply] = move
       THEN 9000
       ELSE IF killer_moves[1][ply] = move
            THEN 8000
            ELSE history_moves[get_move_piece(move)][get_move_target(move)]

\* One round of the outer loop of sortMoves on the pairs <<score, move>>: the
\* inner loop swaps entry current_move with every later entry whose score is
\* greater than the score then held at current_move.
SwapChain(pairs, current_move) ==
  LET higher == {j \in (current_move + 1)..Len(pairs) : pairs[j][1] > pairs[current_move][1]}
  IN  {current_move} \cup {j \in higher : \A m \in higher : m < j => pairs[m][1] < pairs[j][1]}

SortPass(pairs, current_move, chain) ==
  [j \in 1..Len(pairs) |->
     IF j = current_move
     THEN pairs[bitScanReverse(chain)]
     ELSE IF j \in chain
          THEN pairs[bitScanReverse({r \in chain : r < j})]
          ELSE pairs[j]]

RECURSIVE SortFrom(_, _)
SortFrom(pairs, current_move) ==
  IF current_move >= Len(pairs)
  THEN pairs
  ELSE SortFrom(SortPass(pairs, current_move, SwapChain(pairs, current_move)), current_move + 1)

\* sortMoves on the first moves_count entries of the array
sortMoves(list, board, killer_moves, history_moves, ply) ==
  LET sorted == SortFrom([k \in 1..Len(list) |->
                            <<scoreMove(board, killer_moves, history_moves, ply, list[k]), list[k]>>], 1)
  IN  [k \in 1..Len(list) |-> sorted[k][2]]

\* -------------------------------------------------------------- move text
square_to_position ==
  [s \in 0..64 |->
     IF s = 64 THEN <<"n", "o", "_", "s", "q">>
     ELSE <<LowerLetters[(s % 8) + 1], DigitChars[(8 - (s \div 8)) + 1]>>]

\* what printf("%c") writes when it is handed the pointer
\* square_to_position[promoted] instead of a character: a byte of the address,
\* which the build decides. "?" stands for every byte that is no promotion
\* letter.
PointerBytes == {"q", "r", "b", "n", "?"}

\* print_move: the text written for move, byte being what %c wrote
print_move(move, byte) ==
  IF get_move_promoted(move) # 0
  THEN square_to_position[get_move_source(move)] \o square_to_position[get_move_target(move)]
       \o <<byte>>
  ELSE square_to_position[get_move_source(move)] \o square_to_position[get_move_target(move)]

\* ------------------------------------------------------------------ search
\* The globals of evaluation.cpp, zero-initialised when the process starts.
MAX_PLY == 64

ZeroScratch ==
  [ply |-> 0,
   num_nodes |-> 0,
   killer_moves |-> [k \in 0..1 |-> [p \in 0..(MAX_PLY - 1) |-> 0]],
   history_moves |-> [piece \in Pieces |-> [s \in 0..63 |-> 0]],
   pv_length |-> [p \in 0..(MAX_PLY - 1) |-> 0],
   pv_table |-> [p \in 0..(MAX_PLY - 1) |-> [q \in 0..(MAX_PLY - 1) |-> 0]]]

\* The search as a machine m:
\*   store    the ChessGame objects alive: store[1] is the caller's game, the
\*            others are the copies searchPosition, NegaMax and quSearch made
\*   stack    the frames of the running NegaMax and quSearch calls
\*   scratch  the globals
\*   ret      <<v>> when a call has just returned v to the frame below
\* A frame holds the object g its parameter `game` names, whether the object
\* was made for it, and its locals.

\* Faulty variant of ChessGameCopy: the copy shares the original's state.
ChessGameCopy_Alias(g, fresh) == g

\* ChessGame's copy constructor (copy-initialisation, a by-value parameter):
\* the members are arrays and integers, so the copy is a new object, fresh
ChessGameCopy(g, fresh) == fresh

Put(store, h, content) ==
  IF h = Len(store) + 1 THEN Append(store, content) ELSE [store EXCEPT ![h] = content]

Max(x, y) == IF x >= y THEN x ELSE y

Top(m) == m.stack[Len(m.stack)]

\* a return of the top frame: the frame goes, and with it its parameter
Return(m, value) ==
  [m EXCEPT !.stack = SubSeq(@, 1, Len(@) - 1),
            !.store = IF Top(m).owned THEN SubSeq(@, 1, Len(@) - 1) ELSE @,
            !.ret = <<value>>]

\* game.moves.generate_moves(game.board); sortMoves(game) on the object content
GenerateAndSort(content, scratch) ==
  [content EXCEPT !.moves =
     StoreMoves(@, sortMoves(generate_moves(content.board), content.board,
                             scratch.killer_moves, scratch.history_moves, scratch.ply))]

\* a call whose parameter h was copied from the object g: the frame is
\* pushed with the moves generated and sorted
Push(m, g, h, frame) ==
  [m EXCEPT !.store = Put(@, h, GenerateAndSort(m.store[g], m.scratch)),
            !.stack = Append(@, [frame EXCEPT !.g = h, !.owned = (h # g)]),
            !.ret = <<>>]

\* quSearch up to its loop, eval being Evaluate(game.board)
EnterQuSearchWith(m, g, alpha, beta, eval) ==
  IF eval >= beta
  THEN [m EXCEPT !.scratch.num_nodes = @ + 1, !.ret = <<beta>>]
  ELSE Push([m EXCEPT !.scratch.num_nodes = @ + 1], g, ChessGameCopy(g, Len(m.store) + 1),
            [fn |-> "quSearch", g |-> 0, owned |-> FALSE, alpha |-> Max(alpha, eval),
             beta |-> beta, depth |-> 0, in_check |-> FALSE, legal_moves |-> 0, i |-> 1])

EnterQuSearch(m, g, alpha, beta) ==
  EnterQuSearchWith(m, g, alpha, beta, Evaluate(m.store[g].board))

\* NegaMax up to its loop, in_check being isThereCheck(game.board.color)
EnterNegaMaxWith(m, g, alpha, beta, depth, in_check) ==
  Push([m EXCEPT !.scratch.pv_length[m.scratch.ply] = m.scratch.ply,
                 !.scratch.num_nodes = @ + 1],
       g, ChessGameCopy(g, Len(m.store) + 1),
       [fn |-> "NegaMax", g |-> 0, owned |-> FALSE, alpha |-> alpha, beta |-> beta,
        depth |-> IF in_check THEN depth + 1 ELSE depth, in_check |-> in_check,
        legal_moves |-> 0, i |-> 1])

EnterNegaMax(m, g, alpha, beta, depth) ==
  IF depth = 0
  THEN EnterQuSearch([m EXCEPT !.scratch.pv_length[m.scratch.ply] = m.scratch.ply],
                     g, alpha, beta)
  ELSE EnterNegaMaxWith(m, g, alpha, beta, depth,
                        isThereCheck(m.store[g].board, m.store[g].board.color))

\* Faulty variant of FinishNegaMax: the mate score does not count the ply.
FinishNegaMax_NoPly(m) ==
  Return(m, IF Top(m).legal_moves = 0
            THEN (IF Top(m).in_check THEN 0 - 49000 ELSE 0)
            ELSE Top(m).alpha)

\* the end of NegaMax, after its loop
FinishNegaMax(m) ==
  Return(m, IF Top(m).legal_moves = 0
            THEN (IF Top(m).in_check THEN m.scratch.ply - 49000 ELSE 0)
            ELSE Top(m).alpha)

\* the move the loop of the top frame is at
CurrentMove(m) == m.store[Top(m).g].moves.moves[Top(m).i]

\* a round of the loop of NegaMax after `if (game.timer.IsTimeOut()) break;`,
\* r being what MakeMove gave
TryNegaMax(m, r) ==
  IF ~r.ret
  THEN [m EXCEPT !.store[Top(m).g].board = r.board,
                 !.stack[Len(m.stack)].i = @ + 1]
  ELSE EnterNegaMax([m EXCEPT !.store[Top(m).g].board = r.board,
                              !.stack[Len(m.stack)].legal_moves = @ + 1,
                              !.scratch.ply = @ + 1],
                    Top(m).g, 0 - Top(m).beta, 0 - Top(m).alpha, Top(m).depth - 1)

\* a round of the loop of NegaMax up to the call of NegaMax, or the end of
\* the loop and what follows it
StepNegaMax(m, timeout) ==
  IF Top(m).i > m.store[Top(m).g].moves.moves_count
  THEN FinishNegaMax(m)
  ELSE IF timeout
       THEN FinishNegaMax([m EXCEPT !.store[Top(m).g].board = copyBoard(@),
                                    !.scratch.ply = @ + 1])
       ELSE TryNegaMax(m, MakeMove(copyBoard(m.store[Top(m).g].board), CurrentMove(m)))

\* Faulty variant of RecordPV: the move is recorded at the next ply.
RecordPV_NextPly(scratch, move) ==
  [scratch EXCEPT !.pv_table[scratch.ply + 1][scratch.ply + 1] = move]

\* lines 349-355: the move heads the line of the current ply, the line of the
\* next ply follows it
RecordPV(scratch, move) ==
  [scratch EXCEPT
     !.pv_table[scratch.ply] =
        [n_ply \in 0..(MAX_PLY - 1) |->
           IF n_ply = scratch.ply
           THEN move
           ELSE IF n_ply > scratch.ply /\ n_ply < scratch.pv_length[scratch.ply + 1]
                THEN scratch.pv_table[scratch.ply + 1][n_ply]
                ELSE @[n_ply]],
     !.pv_length[scratch.ply] = scratch.pv_length[scratch.ply + 1]]

\* lines 332-335
RecordKiller(scratch, move) ==
  IF get_move_capture(move) = 0
  THEN [scratch EXCEPT !.killer_moves[1][scratch.ply] = scratch.killer_moves[0][scratch.ply],
                       !.killer_moves[0][scratch.ply] = move]
  ELSE scratch

\* lines 343-345
RecordHistory(scratch, move, depth) ==
  IF get_move_capture(move) = 0
  THEN [scratch EXCEPT !.history_moves[get_move_piece(move)][get_move_target(move)] = @ + depth]
  ELSE scratch

\* the rest of the round of NegaMax once the call has returned: m has the
\* board reverted and ply decremented
AfterNegaMax(m, score, move) ==
  IF score >= Top(m).beta
  THEN Return([m EXCEPT !.scratch = RecordKiller(@, move)], Top(m).beta)
  ELSE IF score > Top(m).alpha
       THEN [m EXCEPT !.scratch = RecordPV(RecordHistory(@, move, Top(m).depth), move),
                      !.stack[Len(m.stack)].alpha = score,
                      !.stack[Len(m.stack)].i = @ + 1,
                      !.ret = <<>>]
       ELSE [m EXCEPT !.stack[Len(m.stack)].i = @ + 1, !.ret = <<>>]

ResumeNegaMax(m) ==
  AfterNegaMax([m EXCEPT !.store[Top(m).g].board = revertBoard(@),
                         !.scratch.ply = @ - 1],
               0 - m.ret[1], CurrentMove(m))

\* the captures the loop of quSearch has still to visit
CapturesLeft(m) ==
  {k \in Top(m).i..m.store[Top(m).g].moves.moves_count :
     get_move_capture(m.store[Top(m).g].moves.moves[k]) # 0}

\* the round of the loop of quSearch for the capture moves[k-1]
TryQuSearch(m, k, r) ==
  IF ~r.ret
  THEN [m EXCEPT !.store[Top(m).g].board = r.board,
                 !.stack[Len(m.stack)].i = k + 1]
  ELSE EnterQuSearch([m EXCEPT !.store[Top(m).g].board = r.board,
                               !.stack[Len(m.stack)].i = k,
                               !.scratch.ply = @ + 1],
                     Top(m).g, 0 - Top(m).beta, 0 - Top(m).alpha)

\* the loop of quSearch up to the next call of quSearch, or to its end
StepQuSearch(m, timeout) ==
  IF timeout \/ CapturesLeft(m) = {}
  THEN Return(m, Top(m).alpha)
  ELSE TryQuSearch(m, bitScanForward(CapturesLeft(m)),
                   MakeMove(copyBoard(m.store[Top(m).g].board),
                            m.store[Top(m).g].moves.moves[bitScanForward(CapturesLeft(m))]))

AfterQuSearch(m, score) ==
  IF score >= Top(m).beta
  THEN Return(m, Top(m).beta)
  ELSE [m EXCEPT !.stack[Len(m.stack)].alpha = Max(@, score),
                 !.stack[Len(m.stack)].i = @ + 1,
                 !.ret = <<>>]

ResumeQuSearch(m) ==
  AfterQuSearch([m EXCEPT !.store[Top(m).g].board = revertBoard(@),
                          !.scratch.ply = @ - 1],
                0 - m.ret[1])

\* ------------------------------------------------------------ the sessions
\* Games given to "position startpos moves ...": every position of the model
\* is reached from the standard start by accepted moves.
\* 1.e4 e5 2.Nf3 Nc6 3.Bc4 Bc5 4.d3 d6 5.Nc3 Nf6 6.Be3 Be6 7.Qd2 Qd7 8.O-O-O O-O
GameA ==
  <<<<"e", "2", "e", "4">>, <<"e", "7", "e", "5">>, <<"g", "1", "f", "3">>, <<"b", "8", "c", "6">>,
    <<"f", "1", "c", "4">>, <<"f", "8", "c", "5">>, <<"d", "2", "d", "3">>, <<"d", "7", "d", "6">>,
    <<"b", "1", "c", "3">>, <<"g", "8", "f", "6">>, <<"c", "1", "e", "3">>, <<"c", "8", "e", "6">>,
    <<"d", "1", "d", "2">>, <<"d", "8", "d", "7">>, <<"e", "1", "c", "1">>, <<"e", "8", "g", "8">>>>

\* 1.h4 g5 2.hxg5 a5 3.g6 a4 4.g7 Nc6 5.d3 d6 6.Be3 Be6 7.b4 axb3 8.gxh8=Q bxc2 9.Qxg8 c1=Q 10.Qxc1
GameB ==
  <<<<"h", "2", "h", "4">>, <<"g", "7", "g", "5">>, <<"h", "4", "g", "5">>, <<"a", "7", "a", "5">>,
    <<"g", "5", "g", "6">>, <<"a", "5", "a", "4">>, <<"g", "6", "g", "7">>, <<"b", "8", "c", "6">>,
    <<"d", "2", "d", "3">>, <<"d", "7", "d", "6">>, <<"c", "1", "e", "3">>, <<"c", "8", "e", "6">>,
    <<"b", "2", "b", "4">>, <<"a", "4", "b", "3">>, <<"g", "7", "h", "8", "q">>, <<"b", "3", "c", "2">>,
    <<"h", "8", "g", "8">>, <<"c", "2", "c", "1", "q">>, <<"d", "1", "c", "1">>>>

\* 1.e4 e5 2.Bc4 Bc5 3.Ne2 Nc6 4.f4 d6 5.d4 Bb6 6.O-O Bg4 7.Nbc3 Qd7 8.Be3 O-O-O
GameC ==
  <<<<"e", "2", "e", "4">>, <<"e", "7", "e", "5">>, <<"f", "1", "c", "4">>, <<"f", "8", "c", "5">>,
    <<"g", "1", "e", "2">>, <<"b", "8", "c", "6">>, <<"f", "2", "f", "4">>, <<"d", "7", "d", "6">>,
    <<"d", "2", "d", "4">>, <<"c", "5", "b", "6">>, <<"e", "1", "g", "1">>, <<"c", "8", "g", "4">>,
    <<"b", "1", "c", "3">>, <<"d", "8", "d", "7">>, <<"c", "1", "e", "3">>, <<"e", "8", "c", "8">>>>

\* 1.e4 b6 2.Bc4 Ba6 3.Nf3 c6 4.Bd5 h5 5.Bb3 h4 6.g4 Nf6 7.d3 d6 8.Bxf7+ Kxf7
GameD ==
  <<<<"e", "2", "e", "4">>, <<"b", "7", "b", "6">>, <<"f", "1", "c", "4">>, <<"c", "8", "a", "6">>,
    <<"g", "1", "f", "3">>, <<"c", "7", "c", "6">>, <<"c", "4", "d", "5">>, <<"h", "7", "h", "5">>,
    <<"d", "5", "b", "3">>, <<"h", "5", "h", "4">>, <<"g", "2", "g", "4">>, <<"g", "8", "f", "6">>,
    <<"d", "2", "d", "3">>,
    <<"d", "7", "d", "6">>, <<"b", "3", "f", "7">>, <<"e", "8", "f", "7">>>>

\* 1.e4 e5 2.Qh5, then the driver sends d1e2 for black, then g1f3
GameE ==
  <<<<"e", "2", "e", "4">>, <<"e", "7", "e", "5">>, <<"d", "1", "h", "5">>, <<"d", "1", "e", "2">>,
    <<"g", "1", "f", "3">>>>

\* 1.e4 d5 2.Bb5+, then the driver sends g8f6, which leaves black in check,
\* then c7c6
GameF ==
  <<<<"e", "2", "e", "4">>, <<"d", "7", "d", "5">>, <<"f", "1", "b", "5">>, <<"g", "8", "f", "6">>,
    <<"c", "7", "c", "6">>>>

Games == <<GameA, GameB, GameC, GameD, GameE, GameF>>

\* the games whose every move is a move of the position it is sent for
SoundGames == 1..4

\* the positions a position command gives as a FEN record
\* "r3k2r/p1ppqpb1/bn2pnp1/3PN3/1p2P3/2N2Q1p/PPPBBPPP/R3K2R w KQkq - 0 1"
KiwipeteFEN ==
  <<
     "r", "3", "k", "2", "r", "/", "p", "1", "p", "p", "q", "p", "b", "1", "/", "b",
     "n", "2", "p", "n", "p", "1", "/", "3", "P", "N", "3", "/", "1", "p", "2", "P",
     "3", "/", "2", "N", "2", "Q", "1", "p", "/", "P", "P", "P", "B", "B", "P", "P",
     "P", "/", "R", "3", "K", "2", "R", " ", "w", " ", "K", "Q", "k", "q", " ", "-",
     " ", "0", " ", "1"
  >>

\* "8/2p5/3p4/KP5r/1R3p1k/8/4P1P1/8 w - - 0 1"
EndgameFEN ==
  <<
     "8", "/", "2", "p", "5", "/", "3", "p", "4", "/", "K", "P", "5", "r", "/", "1",
     "R", "3", "p", "1", "k", "/", "8", "/", "4", "P", "1", "P", "1", "/", "8", " ",
     "w", " ", "-", " ", "-", " ", "0", " ", "1"
  >>

Fens == <<KiwipeteFEN, EndgameFEN>>

\* the positions of the search sessions
\* "6k1/5ppp/8/8/8/8/5PPP/R6K w - - 0 1"
MateInOneFEN ==
  <<
     "6", "k", "1", "/", "5", "p", "p", "p", "/", "8", "/", "8", "/", "8", "/", "8",
     "/", "5", "P", "P", "P", "/", "R", "6", "K", " ", "w", " ", "-", " ", "-", " ",
     "0", " ", "1"
  >>

\* "7k/5Q2/6K1/8/8/8/8/8 b - - 0 1"
StalemateFEN ==
  <<
     "7", "k", "/", "5", "Q", "2", "/", "6", "K", "1", "/", "8", "/", "8", "/", "8",
     "/", "8", "/", "8", " ", "b", " ", "-", " ", "-", " ", "0", " ", "1"
  >>

\* "7k/4P3/8/8/8/8/8/K7 w - - 0 1"
PromotionFEN ==
  <<
     "7", "k", "/", "4", "P", "3", "/", "8", "/", "8", "/", "8", "/", "8", "/", "8",
     "/", "K", "7", " ", "w", " ", "-", " ", "-", " ", "0", " ", "1"
  >>

\* "7k/8/8/8/8/8/1p6/K7 w - - 0 1"
CaptureFEN ==
  <<
     "7", "k", "/", "8", "/", "8", "/", "8", "/", "8", "/", "8", "/", "1", "p", "6",
     "/", "K", "7", " ", "w", " ", "-", " ", "-", " ", "0", " ", "1"
  >>

\* What the bytes of a ChessBoard hold before its constructor has run.
Indeterminate == {{}, Squares}

Uninitialized(g) ==
  [bitboards |-> [p \in Pieces |-> g],
   bitboards_copy |-> [p \in Pieces |-> g],
   occupancy |-> [c \in 0..2 |-> g],
   occupancy_copy |-> [c \in 0..2 |-> g],
   color |-> 0, color_copy |-> 0, enpassant |-> 0, enpassant_copy |-> 0,
   castling |-> 0, castling_copy |-> 0, num_moves |-> 0]

\* ChessGame(): the default-constructed board (resetBoard), then parseFEN
NewGame(g) == parseFEN(resetBoard(Uninitialized(g)), StartFEN)

\* Moves has no constructor: the array and the count hold what the memory held
\* (all bits clear, or all bits set: -1 as an int)
UninitializedMoves(g) ==
  [moves |-> [k \in 1..MOVES_SIZE |-> IF g = {} THEN 0 ELSE -1],
   moves_count |-> IF g = {} THEN 0 ELSE -1]

VARIABLES
  board,          \* ChessGame::board
  moves,          \* ChessGame::moves
  game,           \* which game the driver sends
  pos,            \* number of moves of the game applied, 0 once the driver left it
  free,           \* operations performed after leaving the game
  last,           \* the last call: operation, move, returned value, board before,
                  \* the move accepted last before it, and the board before the
                  \* last accepted MakeMove
  last_accepted,  \* the last move MakeMove accepted as a move of the game, or 0
  best_move,      \* ChessGame::best_move
  timer,          \* ChessGame::timer: is the time limited, has it run out
  scratch,        \* the globals of evaluation.cpp
  objs,           \* the copies of the game a running search has made
  stack,          \* the frames of the running NegaMax and quSearch calls
  ret,            \* <<v>> when a call has just returned v
  sp,             \* the locals of searchPosition and where it is
  out,            \* the last info line and the last bestmove line printed
  session,        \* which search session the driver sends
  cmd,            \* the command of the session the driver is at
  slider,         \* the last call of the sliding-piece functions: its square,
                  \* its blockers and the three bitboards returned
  searched        \* the search last started: the position and the depth it was
                  \* given, the iteration the timer expired in, the last
                  \* iteration it completed and pv_table[0][0] then, the
                  \* globals it started with, how many searches were started

svars ==
  <<best_move, timer, scratch, objs, stack, ret, sp, out, session, cmd, searched, slider>>

vars == <<board, moves, game, pos, free, last, last_accepted, best_move, timer, scratch,
          objs, stack, ret, sp, out, session, cmd, searched, slider>>

NoCall ==
  [op |-> "none", move |-> 0, ret |-> FALSE, pre |-> <<>>, before |-> 0, base |-> <<>>]

Idle ==
  [pc |-> "idle", depth |-> 0, curr_depth |-> 0, alpha |-> 0, beta |-> 0, game_temp |-> 0]

NoSearch ==
  [position |-> <<>>, moves |-> <<>>, depth |-> 0, completed |-> 0, completed_pv |-> 0,
   abandoned |-> 0,
   start |-> ZeroScratch, searches |-> 0, finished |-> FALSE]

NoOutput == [info |-> <<>>, bestmove |-> <<>>]

NoSlider == [square |-> no_sq, blockers |-> {}, rook |-> {}, bishop |-> {}, queen |-> {}]

\* no search is running and none has run
InitNoSearch ==
  /\ objs = <<>>
  /\ stack = <<>>
  /\ ret = <<>>
  /\ sp = Idle
  /\ timer = [limited |-> FALSE, expired |-> FALSE]
  /\ out = NoOutput
  /\ searched = NoSearch
  /\ slider = NoSlider

\* the globals of evaluation.cpp are zero when the process starts
InitIdle == InitNoSearch /\ scratch = ZeroScratch

\* ChessGame(): the board is constructed, the moves and best_move hold what
\* the memory held
NewChessGame ==
  \E g \in Indeterminate :
    /\ board = NewGame(g)
    /\ moves = UninitializedMoves(g)
    /\ best_move = IF g = {} THEN 0 ELSE -1

InitGame ==
  /\ NewChessGame
  /\ pos = 1
  /\ free = 0
  /\ last = NoCall
  /\ last_accepted = 0
  /\ InitIdle
  /\ session = 0
  /\ cmd = 0

Init == InitGame /\ game \in SoundGames

\* One round of the loop of parsePosition: parseMove, then MakeMove; the loop
\* ends when parseMove returns 0.
PositionMove ==
  /\ pos >= 1
  /\ pos <= Len(Games[game])
  /\ \E p \in {parseMove(moves, board, Games[game][pos])} :
       /\ moves' = p.moves
       /\ IF p.move = 0
          THEN /\ board' = board
               /\ last' = [op |-> "nomove", move |-> 0, ret |-> FALSE, pre |-> board,
                           before |-> last_accepted, base |-> last.base]
               /\ last_accepted' = last_accepted
               /\ pos' = 0
          ELSE /\ \E r \in {MakeMove(board, p.move)} :
                    /\ board' = r.board
                    /\ last' = [op |-> "make", move |-> p.move, ret |-> r.ret, pre |-> board,
                                before |-> last_accepted,
                                base |-> IF r.ret THEN board ELSE last.base]
                    /\ last_accepted' = IF r.ret THEN p.move ELSE last_accepted
               /\ pos' = pos + 1
  /\ UNCHANGED <<game, free>>
  /\ UNCHANGED svars

\* parsePosition with a FEN record and no moves, sent once the game is over.
PositionFen ==
  /\ pos = Len(Games[game]) + 1
  /\ free = 0
  /\ \E f \in 1..Len(Fens) : board' = parseFEN(board, Fens[f])
  /\ last' = [op |-> "fen", move |-> 0, ret |-> FALSE, pre |-> board,
               before |-> last_accepted, base |-> <<>>]
  /\ last_accepted' = 0
  /\ pos' = 0
  /\ UNCHANGED <<moves, game, free>>
  /\ UNCHANGED svars

\* generate_moves, then MakeMove on one of the generated moves.
PlayMove ==
  /\ free < MaxFree
  /\ \E list \in {generate_moves(board)} :
       \E k \in 1..Len(list) :
         \E r \in {MakeMove(board, list[k])} :
           /\ board' = r.board
           /\ last' = [op |-> "make", move |-> list[k], ret |-> r.ret, pre |-> board,
                        before |-> last_accepted,
                        base |-> IF r.ret THEN board ELSE last.base]
           /\ last_accepted' = IF r.ret THEN list[k] ELSE last_accepted
  /\ moves' = StoreMoves(moves, generate_moves(board))
  /\ free' = free + 1
  /\ pos' = 0
  /\ UNCHANGED game
  /\ UNCHANGED svars

\* copyBoard; MakeMove; revertBoard on one of the generated moves.
TryMove ==
  /\ free < MaxFree
  /\ \E list \in {generate_moves(board)} :
       \E k \in 1..Len(list) :
         \E r \in {MakeMove(copyBoard(board), list[k])} :
           /\ board' = IF r.ret THEN revertBoard(r.board) ELSE r.board
           /\ last' = [op |-> "try", move |-> list[k], ret |-> r.ret, pre |-> board,
                        before |-> last_accepted, base |-> <<>>]
  /\ moves' = StoreMoves(moves, generate_moves(board))
  /\ free' = free + 1
  /\ pos' = 0
  /\ UNCHANGED <<game, last_accepted>>
  /\ UNCHANGED svars

\* undoLastMove, called after a MakeMove; when it takes an accepted move back,
\* the move accepted last is again the one before it
undoLastMove ==
  /\ last.op = "make"
  /\ board' = IF board.num_moves # 0 THEN revertBoard(board) ELSE board
  /\ last' = [op |-> "undo", move |-> 0, ret |-> FALSE, pre |-> board,
               before |-> last_accepted, base |-> last.base]
  /\ last_accepted' = IF last.ret /\ board.num_moves # 0 THEN last.before
                      ELSE last_accepted
  /\ pos' = 0
  /\ UNCHANGED <<moves, game, free>>
  /\ UNCHANGED svars

Next == PositionMove \/ PositionFen \/ PlayMove \/ TryMove \/ undoLastMove

Spec == Init /\ [][Next]_vars

\* A driver that sends a move string which is not a move of the position.
InitParse == InitGame /\ game = 5

SpecParse == InitParse /\ [][Next]_vars

\* A driver that sends a move which MakeMove rejects.
InitReject == InitGame /\ game = 6

SpecReject == InitReject /\ [][Next]_vars

\* ------------------------------------------------------ the search sessions
\* A session is the sequence of "position fen ..." / "go ..." pairs the driver
\* sends: the position, the depth searchPosition is called with, and whether
\* the go command limits the time ("go movetime T", depth 20) or not
\* ("go depth d": the budget is DEFAULT_THINKING_TIME_MS / 20, 29.8 hours,
\* which no search of these positions takes).
GO_DEFAULT_DEPTH == 20

SessionMate ==
  <<[fen |-> MateInOneFEN, depth |-> 3, movetime |-> FALSE],
    [fen |-> StalemateFEN, depth |-> 1, movetime |-> FALSE]>>

SessionTimed ==
  <<[fen |-> PromotionFEN, depth |-> GO_DEFAULT_DEPTH, movetime |-> TRUE],
    [fen |-> StalemateFEN, depth |-> GO_DEFAULT_DEPTH, movetime |-> TRUE]>>

SessionMateTimed ==
  <<[fen |-> MateInOneFEN, depth |-> GO_DEFAULT_DEPTH, movetime |-> TRUE]>>

SessionCapture ==
  <<[fen |-> CaptureFEN, depth |-> GO_DEFAULT_DEPTH, movetime |-> TRUE]>>

Sessions == <<SessionMate, SessionTimed, SessionMateTimed, SessionCapture>>

Command == Sessions[session][cmd]

\* the ChessGame objects alive: the caller's, then the copies
Store == <<[board |-> board, moves |-> moves]>> \o objs

Machine == [store |-> Store, stack |-> stack, scratch |-> scratch, ret |-> ret]

\* the variables take the machine m
Becomes(m) ==
  /\ board' = m.store[1].board
  /\ moves' = m.store[1].moves
  /\ objs' = Tail(m.store)
  /\ stack' = m.stack
  /\ scratch' = m.scratch
  /\ ret' = m.ret

InitSearch ==
  /\ NewChessGame
  /\ game = 0
  /\ pos = 0
  /\ free = MaxFree
  /\ last = NoCall
  /\ last_accepted = 0
  /\ InitIdle
  /\ session \in 1..Len(Sessions)
  /\ cmd = 1

\* A history score above the score of every capture (10000 + MVV_LVA).
HistoryHigh == 10000 + 1000

\* The globals late in a long session: the searches before have raised alpha
\* on quiet moves of the white king to a2 so often (history_moves is
\* increased by depth each time and never reset or capped) that the entry has
\* passed the capture scores.
LongSessionScratch == [ZeroScratch EXCEPT !.history_moves[WK][a2] = HistoryHigh]

InitOrdering ==
  /\ NewChessGame
  /\ game = 0
  /\ pos = 0
  /\ free = MaxFree
  /\ last = NoCall
  /\ last_accepted = 0
  /\ InitNoSearch
  /\ scratch = LongSessionScratch
  /\ session = 4
  /\ cmd = 1

\* parsePosition with a FEN record and no moves
parsePosition ==
  /\ sp.pc = "idle"
  /\ cmd <= Len(Sessions[session])
  /\ board' = parseFEN(board, Command.fen)
  /\ sp' = [sp EXCEPT !.pc = "ready"]
  /\ UNCHANGED <<moves, game, pos, free, last, last_accepted, objs, stack, scratch, ret,
                 timer, best_move, out, searched, session, cmd>>
  /\ UNCHANGED slider

\* parseGo up to the loop of searchPosition: StartTimer, the two counters
\* reset, game_temp copied from the game
Go ==
  /\ sp.pc = "ready"
  /\ timer' = [limited |-> Command.movetime, expired |-> FALSE]
  /\ scratch' = [scratch EXCEPT !.num_nodes = 0, !.ply = 0]
  /\ objs' = IF ChessGameCopy(1, 2) = 2 THEN <<[board |-> board, moves |-> moves]>> ELSE <<>>
  /\ sp' = [pc |-> "loop", depth |-> Command.depth, curr_depth |-> 1,
            alpha |-> 0 - 50000, beta |-> 50000, game_temp |-> ChessGameCopy(1, 2)]
  /\ searched' = [position |-> <<board.bitboards, board.occupancy, board.color,
                                 board.castling, board.enpassant, board.num_moves>>,
                  moves |-> moves,
                  depth |-> Command.depth,
                  completed |-> 0,
                  completed_pv |-> scratch.pv_table[0][0],
                  abandoned |-> 0,
                  start |-> scratch',
                  searches |-> searched.searches + 1,
                  finished |-> FALSE]
  /\ out' = NoOutput
  /\ UNCHANGED <<board, moves, game, pos, free, last, last_accepted, stack, ret,
                 best_move, session, cmd>>
  /\ UNCHANGED slider

\* the head of the loop of searchPosition and the call of NegaMax; of a
\* search with limited time the model follows MaxDepth iterations
Iterate ==
  /\ sp.pc = "loop"
  /\ sp.curr_depth <= sp.depth
  /\ sp.curr_depth <= MaxDepth \/ ~timer.limited
  /\ ~timer.expired
  /\ Becomes(EnterNegaMax(Machine, sp.game_temp, sp.alpha, sp.beta, sp.curr_depth))
  /\ sp' = [sp EXCEPT !.pc = "call"]
  /\ UNCHANGED <<game, pos, free, last, last_accepted, timer, best_move, out, searched,
                 session, cmd>>
  /\ UNCHANGED slider

\* a step of the call on top of the stack: a round of its loop, or its return
Step ==
  /\ stack # <<>>
  /\ ret = <<>>
  /\ Becomes(IF Top(Machine).fn = "NegaMax"
             THEN StepNegaMax(Machine, timer.expired)
             ELSE StepQuSearch(Machine, timer.expired))
  /\ UNCHANGED <<game, pos, free, last, last_accepted, sp, timer, best_move, out, searched,
                 session, cmd>>
  /\ UNCHANGED slider

\* the call on top of the stack takes the value its callee returned
Resume ==
  /\ stack # <<>>
  /\ ret # <<>>
  /\ Becomes(IF Top(Machine).fn = "NegaMax"
             THEN ResumeNegaMax(Machine)
             ELSE ResumeQuSearch(Machine))
  /\ UNCHANGED <<game, pos, free, last, last_accepted, sp, timer, best_move, out, searched,
                 session, cmd>>
  /\ UNCHANGED slider

\* the principal variation of the info line
PVLine == [k \in 1..scratch.pv_length[0] |-> scratch.pv_table[0][k - 1]]

\* the rest of the round of searchPosition once NegaMax has returned score
AfterIteration(score) ==
  IF score <= sp.alpha \/ score >= sp.beta
  THEN /\ sp' = [sp EXCEPT !.pc = "loop", !.alpha = 0 - 50000, !.beta = 50000,
                           !.curr_depth = @ + 1]
       /\ out' = out
  ELSE /\ sp' = [sp EXCEPT !.pc = "loop", !.alpha = score - 50, !.beta = score + 50,
                           !.curr_depth = @ + 1]
       /\ out' = [out EXCEPT !.info = [score |-> score, depth |-> sp.curr_depth,
                                       nodes |-> scratch.num_nodes, pv |-> PVLine]]

RootResume ==
  /\ sp.pc = "call"
  /\ stack = <<>>
  /\ ret # <<>>
  /\ AfterIteration(ret[1])
  /\ ret' = <<>>
  /\ searched' = IF timer.expired THEN searched
                 ELSE [searched EXCEPT !.completed = sp.curr_depth,
                                       !.completed_pv = scratch.pv_table[0][0]]
  /\ UNCHANGED <<board, moves, game, pos, free, last, last_accepted, objs, stack, scratch,
                 timer, best_move, session, cmd>>
  /\ UNCHANGED slider

\* the end of searchPosition: the loop is left, the best move printed and stored
BestMove ==
  /\ sp.pc = "loop"
  /\ sp.curr_depth > sp.depth \/ timer.expired
  /\ \E byte \in PointerBytes :
       out' = [out EXCEPT !.bestmove = print_move(scratch.pv_table[0][0], byte)]
  /\ best_move' = scratch.pv_table[0][0]
  /\ objs' = <<>>
  /\ sp' = Idle
  /\ searched' = [searched EXCEPT !.finished = TRUE]
  /\ cmd' = cmd + 1
  /\ UNCHANGED <<board, moves, game, pos, free, last, last_accepted, stack, scratch, ret,
                 timer, session>>
  /\ UNCHANGED slider

\* the time of a "go movetime" runs out while the search is running
TimerExpires ==
  /\ sp.pc \in {"loop", "call"}
  /\ timer.limited
  /\ ~timer.expired
  /\ timer' = [timer EXCEPT !.expired = TRUE]
  /\ searched' = [searched EXCEPT !.abandoned = IF sp.pc = "call" THEN sp.curr_depth ELSE 0]
  /\ UNCHANGED <<board, moves, game, pos, free, last, last_accepted, objs, stack, scratch,
                 ret, sp, best_move, out, session, cmd>>
  /\ UNCHANGED slider

NextSearch ==
  parsePosition \/ Go \/ Iterate \/ Step \/ Resume \/ RootResume \/ BestMove \/ TimerExpires

SpecSearch == InitSearch /\ [][NextSearch]_vars

\* The searches of a session that has been running for long.
SpecOrdering == InitOrdering /\ [][NextSearch]_vars

\* ------------------------------------------------------ the sliding pieces
\* The sliding-piece functions called, once the tables are initialised, on a
\* square and a blockers bitboard of at most MaxBlockers squares.
RECURSIVE BitboardsUpTo(_)
BitboardsUpTo(n) ==
  IF n = 0 THEN {{}}
  ELSE BitboardsUpTo(n - 1)
       \cup {set_bit(bitboard, square) : bitboard \in BitboardsUpTo(n - 1), square \in Squares}

BlockerSets == BitboardsUpTo(MaxBlockers)

InitSliders ==
  /\ NewChessGame
  /\ game = 0
  /\ pos = 0
  /\ free = MaxFree
  /\ last = NoCall
  /\ last_accepted = 0
  /\ InitIdle
  /\ session = 0
  /\ cmd = 0

\* one call of each function on the same arguments; the model follows one
SlidersMoves ==
  /\ slider = NoSlider
  /\ \E square \in Squares : \E blockers \in BlockerSets :
       slider' = [square |-> square, blockers |-> blockers,
                  rook |-> getRooksMoves(square, blockers),
                  bishop |-> getBishopMoves(square, blockers),
                  queen |-> getQueensMoves(square, blockers)]
  /\ UNCHANGED <<board, moves, game, pos, free, last, last_accepted, best_move, timer,
                 scratch, objs, stack, ret, sp, out, session, cmd, searched>>

SpecSliders == InitSliders /\ [][SlidersMoves]_vars

\* ------------------------------------------------------------------ claims
\* The position proper: what the claims compare, without the snapshot.
Position(b) == <<b.bitboards, b.occupancy, b.color, b.castling, b.enpassant>>

KingOf(color) == IF color = white THEN WK ELSE BK
PiecesOf(color) == IF color = white THEN WP..WK ELSE BP..BK

\* Attack by the rules of chess, from the coordinates of the squares: a
\* reference that uses neither the attack tables nor the occupancy arrays.
Abs(x) == IF x < 0 THEN -x ELSE x
Sign(x) == IF x < 0 THEN -1 ELSE IF x > 0 THEN 1 ELSE 0

AllPieces(b) == UNION {b.bitboards[p] : p \in Pieces}

ClearPath(occupied, from, to) ==
  LET dr == (to \div 8) - (from \div 8)
      df == (to % 8) - (from % 8)
      n == IF Abs(dr) > Abs(df) THEN Abs(dr) ELSE Abs(df)
  IN  \A k \in 1..(n - 1) :
        ((from \div 8) + k * Sign(dr)) * 8 + (from % 8) + k * Sign(df) \notin occupied

PieceAttacksSquare(occupied, piece, from, to) ==
  LET dr == (to \div 8) - (from \div 8)
      df == (to % 8) - (from % 8)
      diagonal == Abs(dr) = Abs(df) /\ dr # 0
      straight == (dr = 0) # (df = 0)
  IN  CASE piece = WP -> dr = -1 /\ Abs(df) = 1
        [] piece = BP -> dr = 1 /\ Abs(df) = 1
        [] piece \in {WN, BN} -> {Abs(dr), Abs(df)} = {1, 2}
        [] piece \in {WK, BK} -> Abs(dr) <= 1 /\ Abs(df) <= 1 /\ from # to
        [] piece \in {WB, BB} -> diagonal /\ ClearPath(occupied, from, to)
        [] piece \in {WR, BR} -> straight /\ ClearPath(occupied, from, to)
        [] piece \in {WQ, BQ} -> (diagonal \/ straight) /\ ClearPath(occupied, from, to)

Attacked(b, square, by) ==
  \E occupied \in {AllPieces(b)} :
    \E piece \in PiecesOf(by) : \E from \in b.bitboards[piece] :
      PieceAttacksSquare(occupied, piece, from, square)

Accepted == last.op = "make" /\ last.ret
Rejected == last.op = "make" /\ ~last.ret

\* C1: after MakeMove has accepted a generated move, the king of the side that
\* moved is not attacked by the side now to move.
C1_KingSafeAfterAccepted ==
  Accepted =>
    /\ board.bitboards[KingOf(1 - board.color)] # {}
    /\ ~Attacked(board, bitScanForward(board.bitboards[KingOf(1 - board.color)]), board.color)

\* C1 witness: an accepted move made by a side whose king was in check before it.
C1_Witness ==
  /\ Accepted
  /\ Attacked(last.pre, bitScanForward(last.pre.bitboards[KingOf(last.pre.color)]), 1 - last.pre.color)

\* C2: when MakeMove rejects a generated move the bitboards, occupancies, side,
\* castling rights, en-passant square and num_moves are as before the call.
C2_RejectedLeavesBoard ==
  Rejected =>
    /\ Position(board) = Position(last.pre)
    /\ board.num_moves = last.pre.num_moves

\* C2 witness: a rejected move that had cleared castling rights or the
\* en-passant square before the legality check.
C2_Witness ==
  /\ Rejected
  /\ \/ UpdateCastling(last.pre.castling, last.move) # last.pre.castling
     \/ get_move_enpassant(last.move) # 0

\* C3: copyBoard; MakeMove(m); revertBoard gives back the position, whether
\* MakeMove accepted or rejected m (a rejecting MakeMove has already reverted;
\* the caller's revertBoard after it changes nothing).
C3_SnapshotMakeRestore ==
  last.op = "try" =>
    /\ Position(board) = Position(last.pre)
    /\ Position(revertBoard(board)) = Position(last.pre)

\* C3 witness: an accepted capture, then the restore.
C3_Witness ==
  /\ last.op = "try"
  /\ last.ret
  /\ get_move_capture(last.move) # 0
  /\ last.pre.enpassant # no_sq

\* C5: the occupancies are the unions of the piece bitboards, after parseFEN
\* and after every MakeMove, accepted or rejected.
C5_OccupancyIsUnion ==
  /\ board.occupancy[white] = UNION {board.bitboards[p] : p \in WP..WK}
  /\ board.occupancy[black] = UNION {board.bitboards[p] : p \in BP..BK}
  /\ board.occupancy[both] = board.occupancy[white] \cup board.occupancy[black]

\* C5 witness: MakeMove has rejected a move on the position that parseFEN built
\* over the board of an earlier game.
C5_Witness ==
  /\ Rejected
  /\ pos = 0
  /\ last_accepted = 0
  /\ last.pre.num_moves = 0

\* C6: each king bitboard holds exactly one bit.
C6_OneKingEach ==
  /\ countBits(board.bitboards[WK]) = 1
  /\ countBits(board.bitboards[BK]) = 1

\* C6 witness: after an accepted castling.
C6_Witness == Accepted /\ get_move_castling(last.move) # 0

\* C7: the twelve piece bitboards are pairwise disjoint.
C7_PiecesDisjoint ==
  \A p \in Pieces : \A q \in Pieces : p # q => board.bitboards[p] \cap board.bitboards[q] = {}

\* C7 witness: after an accepted capture-promotion.
C7_Witness ==
  /\ Accepted
  /\ get_move_capture(last.move) # 0
  /\ get_move_promoted(last.move) # 0

HasRight(b, bit) == BitAnd4(b.castling, bit) # 0

\* C8: a castling right that is set implies king and rook on their home
\* squares; an accepted move from or to e1/e8 or a corner clears the rights of
\* that square.
C8_CastlingRightsHome ==
  /\ HasRight(board, WK_c) => e1 \in board.bitboards[WK] /\ h1 \in board.bitboards[WR]
  /\ HasRight(board, WQ_c) => e1 \in board.bitboards[WK] /\ a1 \in board.bitboards[WR]
  /\ HasRight(board, BK_c) => e8 \in board.bitboards[BK] /\ h8 \in board.bitboards[BR]
  /\ HasRight(board, BQ_c) => e8 \in board.bitboards[BK] /\ a8 \in board.bitboards[BR]
  /\ Accepted =>
       LET touched == {get_move_source(last.move), get_move_target(last.move)}
       IN  /\ e1 \in touched => ~HasRight(board, WK_c) /\ ~HasRight(board, WQ_c)
           /\ h1 \in touched => ~HasRight(board, WK_c)
           /\ a1 \in touched => ~HasRight(board, WQ_c)
           /\ e8 \in touched => ~HasRight(board, BK_c) /\ ~HasRight(board, BQ_c)
           /\ h8 \in touched => ~HasRight(board, BK_c)
           /\ a8 \in touched => ~HasRight(board, BQ_c)

\* C8 witness: a capture on a corner whose rook still carried the right.
C8_Witness ==
  /\ Accepted
  /\ get_move_capture(last.move) # 0
  /\ get_move_target(last.move) = h8
  /\ HasRight(last.pre, BK_c)

IsCastling(move) == get_move_castling(move) # 0
CrossedSquare(move) == (get_move_source(move) + get_move_target(move)) \div 2

\* The last call was given a move of the list generate_moves built for last.pre.
Generated == last.op \in {"make", "try"}

\* C9: no castling move is generated while the king's square or the square it
\* crosses is attacked, and none is accepted while its destination is attacked.
C9_NoCastlingThroughAttack ==
  (Generated /\ IsCastling(last.move)) =>
    /\ ~Attacked(last.pre, get_move_source(last.move), 1 - last.pre.color)
    /\ ~Attacked(last.pre, CrossedSquare(last.move), 1 - last.pre.color)
    /\ last.ret => ~Attacked(last.pre, get_move_target(last.move), 1 - last.pre.color)

\* C9 witness: a generated castling move that MakeMove rejected, its
\* destination being attacked.
C9_Witness ==
  /\ Rejected
  /\ IsCastling(last.move)
  /\ Attacked(last.pre, get_move_target(last.move), 1 - last.pre.color)

IsDouble(move) == get_move_double(move) # 0

\* C10: an accepted double push sets the en-passant square between source and
\* target, every other accepted move sets it to no_sq, and an en-passant move
\* is generated only for the pawn that the move accepted last before it pushed
\* two squares.
C10_EnPassantOnlyNextPly ==
  /\ (Accepted /\ IsDouble(last.move)) =>
       board.enpassant = (get_move_source(last.move) + get_move_target(last.move)) \div 2
  /\ (Accepted /\ ~IsDouble(last.move)) => board.enpassant = no_sq
  /\ (Generated /\ get_move_enpassant(last.move) # 0) =>
       /\ IsDouble(last.before)
       /\ get_move_target(last.move) = CrossedSquare(last.before)
       /\ get_move_target(last.move) = last.pre.enpassant

\* C10 witness: two plies after a double push, a black pawn beside the pushed
\* white pawn moves, and the move generated for it is not an en-passant capture.
C10_Witness ==
  /\ Accepted
  /\ last.pre.enpassant = no_sq
  /\ get_move_piece(last.move) = BP
  /\ get_move_enpassant(last.move) = 0
  /\ get_move_source(last.move) \div 8 = 4
  /\ get_move_source(last.move) % 8 # 0
  /\ get_move_source(last.move) - 1 \in last.pre.bitboards[WP]
  /\ get_move_source(last.move) + 7 \notin AllPieces(last.pre)
  /\ get_move_source(last.move) + 15 \notin AllPieces(last.pre)

\* The pawns of the side to move that stand one step before promotion.
PrePromotionPawns(b) ==
  IF b.color = white
  THEN {s \in b.bitboards[WP] : s \div 8 = 1}
  ELSE {s \in b.bitboards[BP] : s \div 8 = 6}

\* The destinations open to the pawn of the side to move on from: the square
\* straight ahead when empty, the two diagonal squares ahead when an enemy
\* piece stands there.
PromotionTargets(b, from) ==
  {to \in Squares :
     /\ to \div 8 = (IF b.color = white THEN from \div 8 - 1 ELSE from \div 8 + 1)
     /\ \/ to % 8 = from % 8 /\ to \notin AllPieces(b)
        \/ Abs((to % 8) - (from % 8)) = 1
           /\ \E p \in PiecesOf(1 - b.color) : to \in b.bitboards[p]}

PromotedPiecesOf(color) == IF color = white THEN {WQ, WR, WB, WN} ELSE {BQ, BR, BB, BN}

\* the entries of list from the square from to the square to
MovesBetween(list, from, to) ==
  {k \in 1..Len(list) : get_move_source(list[k]) = from /\ get_move_target(list[k]) = to}

FourPromotions(list, color, from, to) ==
  /\ Cardinality(MovesBetween(list, from, to)) = 4
  /\ {get_move_promoted(list[k]) : k \in MovesBetween(list, from, to)} = PromotedPiecesOf(color)

\* C11: for every pawn of the side to move on its pre-promotion rank and every
\* destination open to it, generate_moves emits exactly four moves to that
\* destination, promoting to the queen, rook, bishop and knight of the pawn's
\* colour, and no move to it that does not promote.
C11_FourPromotions ==
  \A from \in PrePromotionPawns(board) :
    \A to \in PromotionTargets(board, from) :
      FourPromotions(generate_moves(board), board.color, from, to)

\* a pawn before promotion that can both step ahead and capture
C11_Witness ==
  \E from \in PrePromotionPawns(board) :
    /\ \E to \in PromotionTargets(board, from) : to % 8 = from % 8
    /\ \E to \in PromotionTargets(board, from) : to % 8 # from % 8
    /\ Len(generate_moves(board)) > 0

\* what the claim says resetBoard leaves
BoardCleared(b) ==
  /\ \A p \in Pieces : b.bitboards[p] = {}
  /\ \A c \in {white, black, both} : b.occupancy[c] = {}
  /\ b.color = white
  /\ b.enpassant = no_sq
  /\ b.castling = 0

\* C20: after resetBoard, from any prior board state, the twelve piece
\* bitboards and the three occupancies are zero, the side to move is white,
\* the en-passant square is no_sq and the castling rights are 0. Stated for
\* the resetBoard call that opens parseFEN, on the board the position command
\* found.
C20_ResetClearsBoard ==
  last.op = "fen" => BoardCleared(resetBoard(last.pre))

\* the state is the one a round of the loop of parsePosition left
AfterParseMove == pos >= 2 /\ last.op \in {"make", "nomove"}

\* C17: parseMove returns a non-zero move only if it is one of the first
\* moves_count entries that this call's generate_moves wrote and its source,
\* target and promotion letter match the move string; this holds after any
\* sequence of earlier generate_moves calls on the same Moves object.
C17_ParsedMoveIsGenerated ==
  (AfterParseMove /\ last.move # 0) =>
    \E k \in 1..moves.moves_count :
      /\ moves.moves[k] = last.move
      /\ MoveMatches(moves.moves[k], Games[game][pos - 1])

\* ------------------------------------------------------------ searchPosition
\* searchPosition has returned and the driver has sent nothing since
SearchReturned == searched.finished /\ sp.pc = "idle"

\* C12: when searchPosition has returned, the caller's piece bitboards,
\* occupancies, side to move, castling rights, en-passant square and
\* num_moves are what they were when it was called, and so is the caller's
\* move list: of the caller's game only best_move was written.
C12_SearchLeavesPosition ==
  SearchReturned =>
    /\ <<board.bitboards, board.occupancy, board.color, board.castling, board.enpassant,
         board.num_moves>> = searched.position
    /\ moves = searched.moves

\* a search that the timer cut short after it had visited several nodes
C12_Witness == SearchReturned /\ timer.expired /\ scratch.num_nodes > 2 /\ searched.completed >= 1

\* the moves of a generated list
MovesOf(list) == {list[k] : k \in 1..Len(list)}

\* the moves of the position b that MakeMove accepts
LegalMoves(b) == {move \in MovesOf(generate_moves(b)) : MakeMove(b, move).ret}

\* C13: when searchPosition has returned and the side to move of the searched
\* position has a legal move, best_move (the move of the bestmove line) is one
\* of the legal moves of that position.
C13_BestMoveIsLegal ==
  (SearchReturned /\ LegalMoves(board) # {}) => best_move \in LegalMoves(board)

\* the side to move of b is checkmated
IsCheckmate(b) == isThereCheck(b, b.color) /\ LegalMoves(b) = {}

\* the legal moves of b that checkmate
MatesInOne(b) == {move \in LegalMoves(b) : IsCheckmate(MakeMove(b, move).board)}

\* a search with depth 3 has returned, the timer did not expire, and the
\* searched position is white's with a mate in one
MateSearched ==
  /\ SearchReturned
  /\ searched.depth = 3
  /\ ~timer.expired
  /\ board.color = white
  /\ MatesInOne(board) # {}

\* C14: from a white-to-move position with a mate in one, the search with
\* depth 3 that the timer does not cut short stores a best_move that MakeMove
\* accepts, after which black is in check and has no move MakeMove accepts.
C14_MateInOneFound ==
  MateSearched =>
    /\ MakeMove(board, best_move).ret
    /\ IsCheckmate(MakeMove(board, best_move).board)

C14_Witness == MateSearched /\ searched.completed = 3 /\ best_move # 0

\* C15: when the timer expired while searchPosition was running an iteration
\* that followed a completed one, the best move stored is pv_table[0][0] as
\* it stood at the end of the last completed iteration.
C15_AbandonedIterationKeepsPV ==
  (SearchReturned /\ searched.abandoned > 0 /\ searched.completed >= 1) =>
    best_move = searched.completed_pv

\* C16: when searchPosition has done its resets, at the start of every search
\* of a session, nodes and ply are 0 and every entry of the killer table, the
\* history table, pv_length and pv_table is 0.
C16_ScratchReset == searched.searches >= 1 => searched.start = ZeroScratch

\* C18: when searchPosition has returned and the side to move of the searched
\* position has no legal move, best_move is 0.
C18_NoLegalMoveStoresZero ==
  (SearchReturned /\ LegalMoves(board) = {}) => best_move = 0

\* the letter of a promoted piece
PromotionLetter(piece) ==
  CASE piece \in {WQ, BQ} -> "q"
    [] piece \in {WR, BR} -> "r"
    [] piece \in {WB, BB} -> "b"
    [] piece \in {WN, BN} -> "n"

\* the text of a move: the names of its source and target squares, then the
\* letter of the promoted piece if it promotes
MoveText(move) ==
  IF get_move_promoted(move) # 0
  THEN square_to_position[get_move_source(move)] \o square_to_position[get_move_target(move)]
       \o <<PromotionLetter(get_move_promoted(move))>>
  ELSE square_to_position[get_move_source(move)] \o square_to_position[get_move_target(move)]

\* C19: the text of the bestmove line is the name of the source square, the
\* name of the target square and, for a promotion, the one letter among
\* q, r, b, n of the promoted piece.
C19_BestMoveText == SearchReturned => out.bestmove = MoveText(best_move)

\* NegaMax has returned to searchPosition a score outside the window
FellOutsideWindow ==
  /\ sp.pc = "call"
  /\ stack = <<>>
  /\ ret # <<>>
  /\ (ret[1] <= sp.alpha \/ ret[1] >= sp.beta)

\* C21: when NegaMax at depth d returns a score <= alpha or >= beta, the
\* window becomes [-50000, 50000] and the loop is again at depth d, so that
\* the next call of NegaMax searches the same depth.
C21_RetrySameDepth ==
  [][FellOutsideWindow =>
       /\ sp'.alpha = 0 - 50000
       /\ sp'.beta = 50000
       /\ sp'.curr_depth = sp.curr_depth]_vars

\* the call on top of the stack is a NegaMax on a position whose side to move
\* has no move that MakeMove accepts, and the timer has not expired
NegaMaxWithoutMoves ==
  /\ stack # <<>>
  /\ ret = <<>>
  /\ ~timer.expired
  /\ Top(Machine).fn = "NegaMax"
  /\ LegalMoves(Store[Top(Machine).g].board) = {}

\* C22: a NegaMax on a position whose side to move has no move that MakeMove
\* accepts returns, the timer not having expired, -49000 + ply if that side is
\* in check and 0 otherwise, whatever alpha and beta are.
C22_NoMoveScore ==
  [][(NegaMaxWithoutMoves /\ Len(stack') < Len(stack)) =>
       ret' = <<IF isThereCheck(Store[Top(Machine).g].board, Store[Top(Machine).g].board.color)
                THEN scratch.ply - 49000
                ELSE 0>>]_vars

\* a NegaMax below the root has returned the mate score of its ply to a
\* caller whose window is not the full one
C22_Witness ==
  /\ stack # <<>>
  /\ ret = <<scratch.ply - 49000>>
  /\ scratch.ply >= 1
  /\ ~timer.expired
  /\ Top(Machine).fn = "NegaMax"
  /\ IsCheckmate(Store[Top(Machine).g].board)
  /\ Top(Machine).beta < 50000

\* ------------------------------------------------------------ sliding pieces
\* the square k steps from square in the direction (dfile, drank), or no_sq
\* when it is off the board
StepFrom(square, dfile, drank, k) ==
  IF /\ (square % 8) + k * dfile \in 0..7
     /\ (square \div 8) + k * drank \in 0..7
  THEN ((square \div 8) + k * drank) * 8 + (square % 8) + k * dfile
  ELSE no_sq

\* the squares walked from square in one direction, square by square, up to
\* and including the first square of blockers or the edge of the board
Walk(square, blockers, dfile, drank) ==
  {StepFrom(square, dfile, drank, k) :
     k \in {n \in 1..7 : /\ StepFrom(square, dfile, drank, n) # no_sq
                         /\ \A j \in 1..(n - 1) :
                              StepFrom(square, dfile, drank, j) \notin blockers}}

WalkOrthogonal(square, blockers) ==
  Walk(square, blockers, 0, 1) \cup Walk(square, blockers, 0, -1)
  \cup Walk(square, blockers, 1, 0) \cup Walk(square, blockers, -1, 0)

WalkDiagonal(square, blockers) ==
  Walk(square, blockers, 1, 1) \cup Walk(square, blockers, 1, -1)
  \cup Walk(square, blockers, -1, 1) \cup Walk(square, blockers, -1, -1)

\* C23: for every square and every blockers bitboard, getRooksMoves
\* (getBishopMoves) is the set walked from the square in the four orthogonal
\* (diagonal) directions, without wrapping, up to and including the first
\* occupied square or the edge, and getQueensMoves is the union of the two.
C23_SlidersWalkRays ==
  slider.square # no_sq =>
    /\ slider.rook = WalkOrthogonal(slider.square, slider.blockers)
    /\ slider.bishop = WalkDiagonal(slider.square, slider.blockers)
    /\ slider.queen = WalkOrthogonal(slider.square, slider.blockers)
                      \cup WalkDiagonal(slider.square, slider.blockers)

\* two blockers on one diagonal of a square away from the edges: the ray
\* stops at the nearer one
C23_Witness ==
  /\ slider.square = 36
  /\ slider.blockers = {18, 9}
  /\ 18 \in slider.bishop
  /\ 9 \notin slider.bishop

\* C24: every call of NegaMax and quSearch returns with ply as it was on
\* entry, so that whenever a call is at the head of its loop, where it goes on
\* to write the killer table and the principal variation, ply is its distance
\* from the root of the search: the number of calls below it.
C24_PlyIsDistanceFromRoot ==
  (stack # <<>> /\ ret = <<>>) => scratch.ply = Len(stack) - 1

\* the NegaMax on top of the stack returns through its no-legal-moves branch
ReturnsNoLegalMoves ==
  /\ stack # <<>>
  /\ ret = <<>>
  /\ Top(Machine).fn = "NegaMax"
  /\ Top(Machine).legal_moves = 0
  /\ Len(stack') < Len(stack)

\* C25: NegaMax returns the mate score or the stalemate score of its
\* no-legal-moves branch only on a position whose side to move has no move
\* that MakeMove accepts, the timer expired or not.
C25_NoLegalMovesIsReal ==
  [][ReturnsNoLegalMoves => LegalMoves(Store[Top(Machine).g].board) = {}]_vars

\* ------------------------------------------------------------ parsePosition
\* the legal moves of b that the string names
LegalMatches(b, move_str) == {move \in LegalMoves(b) : MoveMatches(move, move_str)}

\* the position obtained from b by applying, in order, the strings k, k+1, ...
\* of the list up to the n-th, stopping at the first that names no legal move
RECURSIVE LegalPrefix(_, _, _, _)
LegalPrefix(b, list, k, n) ==
  IF k > n \/ LegalMatches(b, list[k]) = {}
  THEN b
  ELSE LegalPrefix(MakeMove(b, CHOOSE move \in LegalMatches(b, list[k]) : TRUE).board,
                   list, k + 1, n)

\* C26: while parsePosition goes through its move list, the board is the
\* position obtained from the start by applying the longest prefix of the
\* moves read so far in which every move is legal.
C26_BoardIsLegalPrefix ==
  pos >= 1 =>
    Position(board) = Position(LegalPrefix(NewGame({}), Games[game], 1, pos - 1))

\* ------------------------------------------------------------ undoLastMove
\* undoLastMove has been called after a MakeMove, a MakeMove having been
\* accepted before it and only rejected ones since
UndoneAfterAccepted == last.op = "undo" /\ last.base # <<>>

\* C27: after an accepted MakeMove from the position P, followed by any number
\* of rejected MakeMove calls, undoLastMove leaves the position P: piece
\* bitboards, occupancies, side, castling rights, en-passant square.
C27_UndoRestores == UndoneAfterAccepted => Position(board) = Position(last.base)

\* C28: num_moves is the number of accepted moves applied to the position:
\* an accepted MakeMove adds one, a rejected one leaves it, and it is back at
\* its previous value when the move is taken back, with revertBoard as in a
\* round of countLegalMoves or with undoLastMove.
C28_NumMovesCountsApplied ==
  /\ last.op = "make" =>
       board.num_moves = last.pre.num_moves + (IF last.ret THEN 1 ELSE 0)
  /\ last.op = "try" => board.num_moves = last.pre.num_moves
  /\ UndoneAfterAccepted => board.num_moves = last.base.num_moves

\* ---------------------------------------------------------------- sortMoves
\* no move without the capture flag precedes a move with it
CapturesFirst(list) ==
  \A j \in 1..Len(list) : \A k \in (j + 1)..Len(list) :
    get_move_capture(list[k]) # 0 => get_move_capture(list[j]) # 0

\* how many entries of list are move
Occurrences(list, move) == Cardinality({k \in 1..Len(list) : list[k] = move})

IsPermutation(list, of) ==
  /\ Len(list) = Len(of)
  /\ \A k \in 1..Len(of) : Occurrences(list, of[k]) = Occurrences(of, of[k])

\* the sorted list and the position of the call on top of the stack
SortedAgainst(content) ==
  /\ CapturesFirst(SubSeq(content.moves.moves, 1, content.moves.moves_count))
  /\ IsPermutation(SubSeq(content.moves.moves, 1, content.moves.moves_count),
                   generate_moves(content.board))

RightsWithin(a, b) == BitAnd4(a, b) = a

\* C30: a MakeMove call never sets a castling bit: after every call the rights
\* are among the rights before it, and after a rejected call they are exactly
\* the rights before it.
C30_CastlingNeverGrows ==
  last.op = "make" =>
    /\ RightsWithin(board.castling, last.pre.castling)
    /\ ~last.ret => board.castling = last.pre.castling

\* an accepted move has cleared a castling right
C30_Witness ==
  /\ last.op = "make"
  /\ last.ret
  /\ board.castling # last.pre.castling
  /\ RightsWithin(board.castling, last.pre.castling)

====
